---- MODULE Spec2Model ----
(***************************************************************************)
(* A model of discord_mcp.py: the webhook registry file, the five tools    *)
(* of the server and the webhook POST they issue.                          *)
(*                                                                         *)
(* A string is a sequence of one-character strings, one per code point; a  *)
(* code point outside ASCII is written "U+XXXX".  A Python value that came *)
(* from JSON is a record tagged by t (null, bool, num, str, arr, obj); an  *)
(* obj keeps its items in insertion order, as a Python dict does.          *)
(***************************************************************************)
EXTENDS Integers, Sequences, FiniteSets, TLC

\* ------------------------------------------------------------------------
\* Bounds of the model
\* ------------------------------------------------------------------------

\* Tool invocations the host may have outstanding at once.
MaxInvocations == 2

\* ------------------------------------------------------------------------
\* Python str
\* ------------------------------------------------------------------------

ascii_uppercase ==
    <<"A", "B", "C", "D", "E", "F", "G", "H", "I", "J", "K", "L", "M", "N", "O", "P", "Q", "R", "S", "T", "U", "V", "W", "X", "Y", "Z">>

ascii_lowercase ==
    <<"a", "b", "c", "d", "e", "f", "g", "h", "i", "j", "k", "l", "m", "n", "o", "p", "q", "r", "s", "t", "u", "v", "w", "x", "y", "z">>

digits ==
    <<"0", "1", "2", "3", "4", "5", "6", "7", "8", "9">>

\* Letters outside ASCII that the inputs use: E-acute and e-acute.
unicode_uppercase ==
    <<"U+00C9">>

unicode_lowercase ==
    <<"U+00E9">>

whitespace == {" ", "\t", "\n"}

Range(s) == {s[i] : i \in 1..Len(s)}

\* s.index(c) + 1, for a string s of distinct characters
IndexOf(s, c) == CHOOSE i \in 1..Len(s) : s[i] = c

\* str.lower(), one code point
lower_char(c) ==
    IF c \in Range(ascii_uppercase) THEN ascii_lowercase[IndexOf(ascii_uppercase, c)]
    ELSE IF c \in Range(unicode_uppercase)
         THEN unicode_lowercase[IndexOf(unicode_uppercase, c)]
    ELSE c

\* str.lower()
lower(s) == [i \in 1..Len(s) |-> lower_char(s[i])]

\* str.isalnum(), one code point: a letter or a digit of any script
isalnum_char(c) ==
    c \in Range(ascii_uppercase) \cup Range(ascii_lowercase) \cup Range(digits)
          \cup Range(unicode_uppercase) \cup Range(unicode_lowercase)

\* str.isalnum(): false on the empty string
isalnum(s) == Len(s) > 0 /\ \A i \in 1..Len(s) : isalnum_char(s[i])

\* str.startswith(prefix)
\* str.startswith(prefix)
startswith(s, prefix) ==
    Len(prefix) <= Len(s) /\ SubSeq(s, 1, Len(prefix)) = prefix

\* The positions of hay where needle occurs
occurrences(hay, needle) ==
    {i \in 1..(Len(hay) - Len(needle) + 1) :
        \A j \in 1..Len(needle) : hay[i + j - 1] = needle[j]}

\* needle in hay
contains(hay, needle) == occurrences(hay, needle) # {}

\* The least member of a non-empty set of positions
first_of(positions) == CHOOSE i \in positions : \A j \in positions : i <= j

\* str.find(needle) + 1, for a needle that occurs in hay
find(hay, needle) == first_of(occurrences(hay, needle))

\* Evaluates body on value: a local variable of the source
bind(value, body(_)) == body(value)

\* str.replace(old, new), for a non-empty old: every non-overlapping
\* occurrence, left to right
RECURSIVE replace(_, _, _)
replace(s, old, new) ==
    IF ~contains(s, old) THEN s
    ELSE bind(find(s, old), LAMBDA i :
         SubSeq(s, 1, i - 1) \o new
         \o replace(SubSeq(s, i + Len(old), Len(s)), old, new))

\* The number of blanks that s begins with, for an s that is not all blanks
leading_blanks(s) ==
    CHOOSE k \in 0..(Len(s) - 1) :
        s[k + 1] \notin whitespace /\ \A j \in 1..k : s[j] \in whitespace

\* The number of blanks that s ends with, for an s that is not all blanks
trailing_blanks(s) ==
    CHOOSE k \in 0..(Len(s) - 1) :
        s[Len(s) - k] \notin whitespace /\ \A j \in 1..k : s[Len(s) - j + 1] \in whitespace

\* str.strip()
strip(s) ==
    IF \A i \in 1..Len(s) : s[i] \in whitespace THEN <<>>
    ELSE SubSeq(s, leading_blanks(s) + 1, Len(s) - trailing_blanks(s))

\* s[-n:]
tail(s, n) == IF Len(s) <= n THEN s ELSE SubSeq(s, Len(s) - n + 1, Len(s))

\* sep.join(parts)
RECURSIVE join(_, _)
join(sep, parts) ==
    IF Len(parts) = 0 THEN <<>>
    ELSE IF Len(parts) = 1 THEN parts[1]
    ELSE parts[1] \o sep \o join(sep, Tail(parts))

\* The concatenation of a list of lists
RECURSIVE flatten(_)
flatten(lists) ==
    IF Len(lists) = 0 THEN <<>> ELSE lists[1] \o flatten(Tail(lists))

\* str(n)
RECURSIVE str_int(_)
str_int(n) ==
    IF n < 0 THEN <<"-">> \o str_int(-n)
    ELSE IF n < 10 THEN <<digits[n + 1]>>
    ELSE str_int(n \div 10) \o <<digits[(n % 10) + 1]>>

\* c * n
repeat(c, n) == [i \in 1..n |-> c]

\* str.lstrip(c)
RECURSIVE lstrip(_, _)
lstrip(s, c) == IF Len(s) > 0 /\ s[1] = c THEN lstrip(Tail(s), c) ELSE s

hexdigits ==
    <<"0", "1", "2", "3", "4", "5", "6", "7", "8", "9", "a", "b", "c", "d", "e", "f">>

\* int(ds, 16) of hex digits
RECURSIVE hex_value(_)
hex_value(ds) ==
    IF Len(ds) = 0 THEN 0
    ELSE 16 * hex_value(SubSeq(ds, 1, Len(ds) - 1))
         + (IndexOf(hexdigits, lower_char(ds[Len(ds)])) - 1)

\* The digits int(s, 16) accepts: hex digits, with single underscores between
hex_literal(w) ==
    /\ Len(w) > 0
    /\ w[1] # "_"
    /\ w[Len(w)] # "_"
    /\ \A i \in 1..Len(w) : w[i] = "_" \/ lower_char(w[i]) \in Range(hexdigits)
    /\ \A i \in 1..(Len(w) - 1) : ~(w[i] = "_" /\ w[i + 1] = "_")

\* int(s, 16) from the digits on; ok is false where Python raises ValueError
int16_digits(w, sign) ==
    IF hex_literal(w)
    THEN [ok |-> TRUE, n |-> sign * hex_value(replace(w, <<"_">>, <<>>))]
    ELSE [ok |-> FALSE, n |-> 0]

\* int(s, 16) from the 0x prefix on: a prefix may be followed by an underscore
int16_prefixed(u, sign) ==
    IF Len(u) >= 2 /\ u[1] = "0" /\ u[2] \in {"x", "X"}
    THEN int16_digits(SubSeq(u, IF Len(u) >= 3 /\ u[3] = "_" THEN 4 ELSE 3, Len(u)), sign)
    ELSE int16_digits(u, sign)

\* int(s, 16) from the sign on
int16_signed(t) ==
    IF Len(t) > 0 /\ t[1] \in {"+", "-"}
    THEN int16_prefixed(Tail(t), IF t[1] = "-" THEN -1 ELSE 1)
    ELSE int16_prefixed(t, 1)

\* int(s, 16): blanks around, a sign, a 0x prefix and single underscores
\* between digits are accepted
int16(s) == int16_signed(strip(s))

\* ------------------------------------------------------------------------
\* Python values read from and written as JSON
\* ------------------------------------------------------------------------

None == [t |-> "null"]
Bool(b) == [t |-> "bool", b |-> b]
Num(n) == [t |-> "num", n |-> n]
Str(s) == [t |-> "str", s |-> s]
Arr(xs) == [t |-> "arr", xs |-> xs]
Obj(items) == [t |-> "obj", items |-> items]
Item(k, v) == [k |-> k, v |-> v]

\* type(v).__name__
type_name(v) ==
    CASE v.t = "null" -> <<"N", "o", "n", "e", "T", "y", "p", "e">>
      [] v.t = "bool" -> <<"b", "o", "o", "l">>
      [] v.t = "num" -> <<"i", "n", "t">>
      [] v.t = "str" -> <<"s", "t", "r">>
      [] v.t = "arr" -> <<"l", "i", "s", "t">>
      [] v.t = "obj" -> <<"d", "i", "c", "t">>

\* bool(v)
truthy(v) ==
    CASE v.t = "null" -> FALSE
      [] v.t = "bool" -> v.b
      [] v.t = "num" -> v.n # 0
      [] v.t = "str" -> v.s # <<>>
      [] v.t = "arr" -> v.xs # <<>>
      [] v.t = "obj" -> v.items # <<>>

\* An outcome of evaluating Python: a value, or an exception raised.
Value(v) == [exc |-> "", msg |-> <<>>, v |-> v]
Raise(type, msg) == [exc |-> type, msg |-> msg, v |-> None]

\* The statements after one that may raise: they run on its value, and an
\* exception it raised goes on to the caller
try(out, then(_)) == IF out.exc # "" THEN out ELSE then(out.v)

\* try: ... except Exception as e: handler(e), around a block whose outcome is out
catch(out, handler(_)) == IF out.exc # "" THEN handler(out) ELSE out.v

\* The outcomes of the passes of a loop: the list of their values, or the
\* first exception raised
all_of(outs) ==
    IF \A i \in 1..Len(outs) : outs[i].exc = ""
    THEN Value([i \in 1..Len(outs) |-> outs[i].v])
    ELSE outs[first_of({i \in 1..Len(outs) : outs[i].exc # ""})]

AttributeError(v, attr) ==
    Raise("AttributeError",
          <<"'">> \o type_name(v) \o <<"'", " ", "o", "b", "j", "e", "c", "t", " ", "h", "a", "s", " ", "n", "o", " ", "a", "t", "t", "r", "i", "b", "u", "t", "e", " ", "'">> \o attr \o <<"'">>)

has_key(d, k) == \E i \in 1..Len(d.items) : d.items[i].k = k

item_of(d, k) == d.items[CHOOSE i \in 1..Len(d.items) : d.items[i].k = k].v

\* v.get(k): the value, None when the key is missing; only a dict has get
get(v, k) ==
    IF v.t # "obj" THEN AttributeError(v, <<"g", "e", "t">>)
    ELSE IF has_key(v, k) THEN Value(item_of(v, k))
    ELSE Value(None)

\* v.get(k, default); only a dict has get
get_default(v, k, default) ==
    IF v.t # "obj" THEN AttributeError(v, <<"g", "e", "t">>)
    ELSE IF has_key(v, k) THEN Value(item_of(v, k))
    ELSE Value(default)

\* list(v.keys())
keys(v) ==
    IF v.t # "obj" THEN AttributeError(v, <<"k", "e", "y", "s">>)
    ELSE Value(Arr([i \in 1..Len(v.items) |-> Str(v.items[i].k)]))

\* v.items()
items(v) ==
    IF v.t # "obj" THEN AttributeError(v, <<"i", "t", "e", "m", "s">>) ELSE Value(v.items)

\* k in v, for a str k
in_(k, v) ==
    CASE v.t = "obj" -> Value(has_key(v, k))
      [] v.t = "arr" -> Value(\E i \in 1..Len(v.xs) : v.xs[i] = Str(k))
      [] v.t = "str" -> Value(contains(v.s, k))
      [] OTHER -> Raise("TypeError",
                        <<"a", "r", "g", "u", "m", "e", "n", "t", " ", "o", "f", " ", "t", "y", "p", "e", " ", "'">> \o type_name(v) \o <<"'", " ", "i", "s", " ", "n", "o", "t", " ", "i", "t", "e", "r", "a", "b", "l", "e">>)

\* v[k] = x, for a str k: a dict keeps the position of a key it already has
setitem(v, k, x) ==
    CASE v.t = "obj" ->
           Value(Obj(IF has_key(v, k)
                     THEN [i \in 1..Len(v.items) |->
                             IF v.items[i].k = k THEN Item(k, x) ELSE v.items[i]]
                     ELSE Append(v.items, Item(k, x))))
      [] v.t = "arr" ->
           Raise("TypeError", <<"l", "i", "s", "t", " ", "i", "n", "d", "i", "c", "e", "s", " ", "m", "u", "s", "t", " ", "b", "e", " ", "i", "n", "t", "e", "g", "e", "r", "s", " ", "o", "r", " ", "s", "l", "i", "c", "e", "s", ",", " ", "n", "o", "t", " ", "s", "t", "r">>)
      [] OTHER ->
           Raise("TypeError",
                 <<"'">> \o type_name(v) \o <<"'", " ", "o", "b", "j", "e", "c", "t", " ", "d", "o", "e", "s", " ", "n", "o", "t", " ", "s", "u", "p", "p", "o", "r", "t", " ", "i", "t", "e", "m", " ", "a", "s", "s", "i", "g", "n", "m", "e", "n", "t">>)

\* d[k] = x on a dict
set(d, k, x) == setitem(d, k, x).v

\* A variant of delitem that deletes the item before k as well:
\* RemoveDeletesOneEntry must tell it from delitem
delitem_and_before(v, k) ==
    Value(Obj(SelectSeq(v.items,
                        LAMBDA it : it.k # k /\ (has_key(v, k) => it # v.items[1]))))

\* del v[k], for a str k that is in v
delitem(v, k) ==
    CASE v.t = "obj" -> Value(Obj(SelectSeq(v.items, LAMBDA it : it.k # k)))
      [] v.t = "arr" ->
           Raise("TypeError", <<"l", "i", "s", "t", " ", "i", "n", "d", "i", "c", "e", "s", " ", "m", "u", "s", "t", " ", "b", "e", " ", "i", "n", "t", "e", "g", "e", "r", "s", " ", "o", "r", " ", "s", "l", "i", "c", "e", "s", ",", " ", "n", "o", "t", " ", "s", "t", "r">>)
      [] OTHER ->
           Raise("TypeError",
                 <<"'">> \o type_name(v) \o <<"'", " ", "o", "b", "j", "e", "c", "t", " ", "d", "o", "e", "s", "n", "'", "t", " ", "s", "u", "p", "p", "o", "r", "t", " ", "i", "t", "e", "m", " ", "d", "e", "l", "e", "t", "i", "o", "n">>)

\* len(v)
len(v) ==
    CASE v.t = "str" -> Value(Len(v.s))
      [] v.t = "arr" -> Value(Len(v.xs))
      [] v.t = "obj" -> Value(Len(v.items))
      [] OTHER -> Raise("TypeError",
                        <<"o", "b", "j", "e", "c", "t", " ", "o", "f", " ", "t", "y", "p", "e", " ", "'">> \o type_name(v) \o <<"'", " ", "h", "a", "s", " ", "n", "o", " ", "l", "e", "n", "(", ")">>)

\* json.dumps escapes: ensure_ascii writes a code point outside ASCII as \uXXXX
json_escape_char(c) ==
    CASE c = "\"" -> <<"\\", "\"">>
      [] c = "\\" -> <<"\\", "\\">>
      [] c = "\n" -> <<"\\", "n">>
      [] c = "\t" -> <<"\\", "t">>
      [] c = "U+00E9" -> <<"\\">> \o <<"u", "0", "0", "e", "9">>
      [] c = "U+00C9" -> <<"\\">> \o <<"u", "0", "0", "c", "9">>
      [] c = "U+2192" -> <<"\\">> \o <<"u", "2", "1", "9", "2">>
      [] c = "U+2014" -> <<"\\">> \o <<"u", "2", "0", "1", "4">>
      [] c = "U+26A0" -> <<"\\">> \o <<"u", "2", "6", "a", "0">>
      [] c = "U+FE0F" -> <<"\\">> \o <<"u", "f", "e", "0", "f">>
      [] c = "U+1F4E6" -> <<"\\">> \o <<"u", "d", "8", "3", "d">> \o <<"\\">> \o <<"u", "d", "c", "e", "6">>
      [] c = "U+1F6A8" -> <<"\\">> \o <<"u", "d", "8", "3", "d">> \o <<"\\">> \o <<"u", "d", "e", "a", "8">>
      [] c = "U+1F9EA" -> <<"\\">> \o <<"u", "d", "8", "3", "e">> \o <<"\\">> \o <<"u", "d", "d", "e", "a">>
      [] c = "U+1F4E2" -> <<"\\">> \o <<"u", "d", "8", "3", "d">> \o <<"\\">> \o <<"u", "d", "c", "e", "2">>
      [] c = "U+1F517" -> <<"\\">> \o <<"u", "d", "8", "3", "d">> \o <<"\\">> \o <<"u", "d", "d", "1", "7">>
      [] OTHER -> <<c>>

\* The characters json.dumps does not write as they are
json_escaped ==
    {"\"", "\\", "\n", "\t", "U+00E9", "U+00C9", "U+2192", "U+2014", "U+26A0",
     "U+FE0F", "U+1F4E6", "U+1F6A8", "U+1F9EA", "U+1F4E2", "U+1F517"}

\* The text of a str between the quotes json.dumps puts around it
RECURSIVE json_escape(_)
json_escape(s) ==
    bind({i \in 1..Len(s) : s[i] \in json_escaped}, LAMBDA escapes :
    IF escapes = {} THEN s
    ELSE bind(first_of(escapes), LAMBDA i :
         SubSeq(s, 1, i - 1) \o json_escape_char(s[i])
         \o json_escape(SubSeq(s, i + 1, Len(s)))))

json_indent(level) == repeat(" ", 2 * level)

\* json.dumps(v, indent=2), at nesting depth level
RECURSIVE json_dumps_at(_, _)
json_dumps_at(v, level) ==
    CASE v.t = "null" -> <<"n", "u", "l", "l">>
      [] v.t = "bool" -> IF v.b THEN <<"t", "r", "u", "e">> ELSE <<"f", "a", "l", "s", "e">>
      [] v.t = "num" -> str_int(v.n)
      [] v.t = "str" -> <<"\"">> \o json_escape(v.s) \o <<"\"">>
      [] v.t = "arr" ->
           IF v.xs = <<>> THEN <<"[", "]">>
           ELSE <<"[", "\n">> \o json_indent(level + 1)
                \o join(<<",", "\n">> \o json_indent(level + 1),
                        [i \in 1..Len(v.xs) |-> json_dumps_at(v.xs[i], level + 1)])
                \o <<"\n">> \o json_indent(level) \o <<"]">>
      [] v.t = "obj" ->
           IF v.items = <<>> THEN <<"{", "}">>
           ELSE <<"{", "\n">> \o json_indent(level + 1)
                \o join(<<",", "\n">> \o json_indent(level + 1),
                        [i \in 1..Len(v.items) |->
                           <<"\"">> \o json_escape(v.items[i].k) \o <<"\"", ":", " ">>
                           \o json_dumps_at(v.items[i].v, level + 1)])
                \o <<"\n">> \o json_indent(level) \o <<"}">>

\* json.dumps(v, indent=2)
json_dumps(v) == json_dumps_at(v, 0)

\* repr(v), as str() of a list or a dict writes its members
RECURSIVE repr(_)
repr(v) ==
    CASE v.t = "null" -> <<"N", "o", "n", "e">>
      [] v.t = "bool" -> IF v.b THEN <<"T", "r", "u", "e">> ELSE <<"F", "a", "l", "s", "e">>
      [] v.t = "num" -> str_int(v.n)
      [] v.t = "str" -> <<"'">> \o v.s \o <<"'">>
      [] v.t = "arr" ->
           <<"[">> \o join(<<",", " ">>, [i \in 1..Len(v.xs) |-> repr(v.xs[i])]) \o <<"]">>
      [] v.t = "obj" ->
           <<"{">> \o join(<<",", " ">>, [i \in 1..Len(v.items) |->
                                   <<"'">> \o v.items[i].k \o <<"'", ":", " ">> \o repr(v.items[i].v)])
           \o <<"}">>

\* str(v), as an f-string writes v
str(v) == IF v.t = "str" THEN v.s ELSE repr(v)

\* ------------------------------------------------------------------------
\* Constants of the program
\* ------------------------------------------------------------------------

DISCORD_MESSAGE_LIMIT == 2000

NAME_MIN_LENGTH == 1

NAME_MAX_LENGTH == 50

URL_MIN_LENGTH == 50

URL_MAX_LENGTH == 300

DESCRIPTION_MAX_LENGTH == 200

CONTENT_MIN_LENGTH == 1

CONTENT_MAX_LENGTH == 2000

USERNAME_MAX_LENGTH == 80

VERSION_MIN_LENGTH == 1

VERSION_MAX_LENGTH == 30

HEADLINE_MIN_LENGTH == 1

HEADLINE_MAX_LENGTH == 256

CHANGES_MIN_ITEMS == 1

CHANGES_MAX_ITEMS == 10

FOOTER_MAX_LENGTH == 100

URL_HINT_LENGTH == 8

DISCORD_PREFIX ==
    <<"h", "t", "t", "p", "s", ":", "/", "/", "d", "i", "s", "c", "o", "r", "d", ".", "c", "o", "m", "/", "a", "p", "i", "/", "w", "e", "b", "h", "o", "o", "k", "s", "/">>

DISCORDAPP_PREFIX ==
    <<"h", "t", "t", "p", "s", ":", "/", "/", "d", "i", "s", "c", "o", "r", "d", "a", "p", "p", ".", "c", "o", "m", "/", "a", "p", "i", "/", "w", "e", "b", "h", "o", "o", "k", "s", "/">>

\* ------------------------------------------------------------------------
\* The registry file (WEBHOOKS_FILE)
\* ------------------------------------------------------------------------

\* What is on disk at WEBHOOKS_FILE:
\*   missing      no such file
\*   noaccess     open() fails with OSError, to read and to write
\*   undecodable  bytes that are not UTF-8
\*   malformed    text that is not JSON
\*   json         a JSON document, doc
FileOf(kind, doc) == [kind |-> kind, doc |-> doc]

MissingFile == FileOf("missing", None)

JsonFile(doc) == FileOf("json", doc)

\* _load_webhooks()
_load_webhooks(f) ==
    CASE f.kind = "missing" -> Value(Obj(<<>>))
      [] f.kind = "noaccess" -> Value(Obj(<<>>))
      [] f.kind = "malformed" -> Value(Obj(<<>>))
      [] f.kind = "undecodable" ->
           Raise("UnicodeDecodeError",
                 <<"'", "u", "t", "f", "-", "8", "'", " ", "c", "o", "d", "e", "c", " ", "c", "a", "n", "'", "t", " ", "d", "e", "c", "o", "d", "e", " ", "b", "y", "t", "e", " ", "0", "x", "f", "f", " ", "i", "n", " ", "p", "o", "s", "i", "t", "i", "o", "n", " ", "0", ":", " ", "i", "n", "v", "a", "l", "i", "d", " ", "s", "t", "a", "r", "t", " ", "b", "y", "t", "e">>)
      [] f.kind = "json" -> Value(f.doc)

\* _save_webhooks(webhooks): the file it leaves
_save_webhooks(f, webhooks) ==
    IF f.kind = "noaccess"
    THEN Raise("PermissionError", <<"[", "E", "r", "r", "n", "o", " ", "1", "3", "]", " ", "P", "e", "r", "m", "i", "s", "s", "i", "o", "n", " ", "d", "e", "n", "i", "e", "d", ":", " ", "'", "w", "e", "b", "h", "o", "o", "k", "s", ".", "j", "s", "o", "n", "'">>)
    ELSE Value(JsonFile(webhooks))

\* A variant of _get_webhook_url that falls back on the first webhook of the
\* registry when the name has no entry: UnknownWebhookNotPosted must tell it
\* from _get_webhook_url
_get_webhook_url_or_first(f, name) ==
    try(_load_webhooks(f), LAMBDA webhooks :
    try(get(webhooks, lower(name)), LAMBDA webhook :
    IF truthy(webhook) THEN get(webhook, <<"u", "r", "l">>)
    ELSE IF truthy(webhooks) THEN get(webhooks.items[1].v, <<"u", "r", "l">>)
    ELSE Value(None)))

\* _get_webhook_url(name)
_get_webhook_url(f, name) ==
    try(_load_webhooks(f), LAMBDA webhooks :
    try(get(webhooks, lower(name)), LAMBDA webhook :
    IF truthy(webhook) THEN get(webhook, <<"u", "r", "l">>) ELSE Value(None)))

\* ------------------------------------------------------------------------
\* Input models (pydantic): the validated parameters, or ValidationError
\* ------------------------------------------------------------------------

ValidationError(msg) == Raise("ValidationError", msg)

\* A variant of bounded that lets every length through:
\* EveryPostHasABody must tell it from bounded
unbounded(v, min_length, max_length) == Value(v)

\* The length bounds of a str field, on the stripped value
bounded(v, min_length, max_length) ==
    IF Len(v) < min_length
    THEN ValidationError(<<"S", "t", "r", "i", "n", "g", " ", "s", "h", "o", "u", "l", "d", " ", "h", "a", "v", "e", " ", "a", "t", " ", "l", "e", "a", "s", "t", " ">> \o str_int(min_length)
                         \o <<" ", "c", "h", "a", "r", "a", "c", "t", "e", "r", "s">>)
    ELSE IF Len(v) > max_length
    THEN ValidationError(<<"S", "t", "r", "i", "n", "g", " ", "s", "h", "o", "u", "l", "d", " ", "h", "a", "v", "e", " ", "a", "t", " ", "m", "o", "s", "t", " ">> \o str_int(max_length)
                         \o <<" ", "c", "h", "a", "r", "a", "c", "t", "e", "r", "s">>)
    ELSE Value(v)

\* A str field under str_strip_whitespace with min_length and max_length
str_field(s, min_length, max_length) == bounded(strip(s), min_length, max_length)

\* An Optional[str] field: None passes, a str is stripped and bounded
optional_str_field(v, max_length) ==
    IF v.t = "null" THEN Value(None)
    ELSE try(str_field(v.s, 0, max_length), LAMBDA s : Value(Str(s)))

\* An Optional[str] field with no length bound
optional_str(v) == IF v.t = "null" THEN None ELSE Str(strip(v.s))

ResponseFormats == {"markdown", "json"}

AnnouncementStyles == {"release", "hotfix", "beta", "custom"}

\* A ResponseFormat field
response_format_field(v) ==
    IF v \in ResponseFormats THEN Value(v)
    ELSE ValidationError(<<"I", "n", "p", "u", "t", " ", "s", "h", "o", "u", "l", "d", " ", "b", "e", " ", "'", "m", "a", "r", "k", "d", "o", "w", "n", "'", " ", "o", "r", " ", "'", "j", "s", "o", "n", "'">>)

\* A variant of validate_webhook_url that lets every URL through:
\* AddWritesApprovedUrlsOnly must tell it from validate_webhook_url
validate_any_url(v) == Value(v)

\* AddWebhookInput.validate_webhook_url
validate_webhook_url(v) ==
    IF ~startswith(v, DISCORD_PREFIX) /\ ~startswith(v, DISCORDAPP_PREFIX)
    THEN ValidationError(<<"I", "n", "v", "a", "l", "i", "d", " ", "D", "i", "s", "c", "o", "r", "d", " ", "w", "e", "b", "h", "o", "o", "k", " ", "U", "R", "L", ".", " ", "M", "u", "s", "t", " ", "s", "t", "a", "r", "t", " ", "w", "i", "t", "h", " ", "'", "h", "t", "t", "p", "s", ":", "/", "/", "d", "i", "s", "c", "o", "r", "d", ".", "c", "o", "m", "/", "a", "p", "i", "/", "w", "e", "b", "h", "o", "o", "k", "s", "/", "'", " ", "o", "r", " ", "'", "h", "t", "t", "p", "s", ":", "/", "/", "d", "i", "s", "c", "o", "r", "d", "a", "p", "p", ".", "c", "o", "m", "/", "a", "p", "i", "/", "w", "e", "b", "h", "o", "o", "k", "s", "/", "'">>)
    ELSE Value(v)

\* v.lower().replace(' ', '_') in validate_name
sanitize(v) == replace(lower(v), <<" ">>, <<"_">>)

\* sanitized.replace('_', '').isalnum() in validate_name
name_accepted(sanitized) == isalnum(replace(sanitized, <<"_">>, <<>>))

\* AddWebhookInput.validate_name
validate_name(v) ==
    bind(sanitize(v), LAMBDA sanitized :
    IF ~name_accepted(sanitized)
    THEN ValidationError(<<"W", "e", "b", "h", "o", "o", "k", " ", "n", "a", "m", "e", " ", "m", "u", "s", "t", " ", "c", "o", "n", "t", "a", "i", "n", " ", "o", "n", "l", "y", " ", "a", "l", "p", "h", "a", "n", "u", "m", "e", "r", "i", "c", " ", "c", "h", "a", "r", "a", "c", "t", "e", "r", "s", " ", "a", "n", "d", " ", "s", "p", "a", "c", "e", "s", "/", "u", "n", "d", "e", "r", "s", "c", "o", "r", "e", "s">>)
    ELSE Value(sanitized))

\* AddWebhookInput(name, url, description)
AddWebhookInput(args) ==
    try(str_field(args.name, NAME_MIN_LENGTH, NAME_MAX_LENGTH), LAMBDA stripped_name :
    try(validate_name(stripped_name), LAMBDA name :
    try(str_field(args.url, URL_MIN_LENGTH, URL_MAX_LENGTH), LAMBDA stripped_url :
    try(validate_webhook_url(stripped_url), LAMBDA url :
    try(optional_str_field(args.description, DESCRIPTION_MAX_LENGTH), LAMBDA description :
    Value([name |-> name, url |-> url, description |-> description]))))))

\* RemoveWebhookInput(name)
RemoveWebhookInput(args) ==
    try(str_field(args.name, NAME_MIN_LENGTH, NAME_MAX_LENGTH), LAMBDA name :
    Value([name |-> name]))

\* ListWebhooksInput(response_format)
ListWebhooksInput(args) ==
    try(response_format_field(args.response_format), LAMBDA response_format :
    Value([response_format |-> response_format]))

\* SendMessageInput(webhook_name, content, username, avatar_url, response_format)
SendMessageInput(args) ==
    try(str_field(args.webhook_name, NAME_MIN_LENGTH, NAME_MAX_LENGTH), LAMBDA webhook_name :
    try(str_field(args.content, CONTENT_MIN_LENGTH, CONTENT_MAX_LENGTH), LAMBDA content :
    try(optional_str_field(args.username, USERNAME_MAX_LENGTH), LAMBDA username :
    try(response_format_field(args.response_format), LAMBDA response_format :
    Value([webhook_name |-> webhook_name,
           content |-> content,
           username |-> username,
           avatar_url |-> optional_str(args.avatar_url),
           response_format |-> response_format])))))

\* The changes field: a list of 1 to 10 str, each stripped
changes_field(changes) ==
    IF Len(changes) < CHANGES_MIN_ITEMS
    THEN ValidationError(<<"L", "i", "s", "t", " ", "s", "h", "o", "u", "l", "d", " ", "h", "a", "v", "e", " ", "a", "t", " ", "l", "e", "a", "s", "t", " ", "1", " ", "i", "t", "e", "m", " ", "a", "f", "t", "e", "r", " ", "v", "a", "l", "i", "d", "a", "t", "i", "o", "n">>)
    ELSE IF Len(changes) > CHANGES_MAX_ITEMS
    THEN ValidationError(<<"L", "i", "s", "t", " ", "s", "h", "o", "u", "l", "d", " ", "h", "a", "v", "e", " ", "a", "t", " ", "m", "o", "s", "t", " ", "1", "0", " ", "i", "t", "e", "m", "s", " ", "a", "f", "t", "e", "r", " ", "v", "a", "l", "i", "d", "a", "t", "i", "o", "n">>)
    ELSE Value([i \in 1..Len(changes) |-> strip(changes[i])])

\* An AnnouncementStyle field
style_field(v) ==
    IF v \in AnnouncementStyles THEN Value(v)
    ELSE ValidationError(<<"I", "n", "p", "u", "t", " ", "s", "h", "o", "u", "l", "d", " ", "b", "e", " ", "'", "r", "e", "l", "e", "a", "s", "e", "'", ",", " ", "'", "h", "o", "t", "f", "i", "x", "'", ",", " ", "'", "b", "e", "t", "a", "'", " ", "o", "r", " ", "'", "c", "u", "s", "t", "o", "m", "'">>)

\* SendAnnouncementInput(...)
SendAnnouncementInput(args) ==
    try(str_field(args.webhook_name, NAME_MIN_LENGTH, NAME_MAX_LENGTH), LAMBDA webhook_name :
    try(str_field(args.version, VERSION_MIN_LENGTH, VERSION_MAX_LENGTH), LAMBDA version :
    try(str_field(args.headline, HEADLINE_MIN_LENGTH, HEADLINE_MAX_LENGTH), LAMBDA headline :
    try(changes_field(args.changes), LAMBDA changes :
    try(style_field(args.style), LAMBDA style :
    try(optional_str_field(args.footer_text, FOOTER_MAX_LENGTH), LAMBDA footer_text :
    try(optional_str_field(args.username, USERNAME_MAX_LENGTH), LAMBDA username :
    try(response_format_field(args.response_format), LAMBDA response_format :
    Value([webhook_name |-> webhook_name,
           version |-> version,
           headline |-> headline,
           changes |-> changes,
           download_url |-> optional_str(args.download_url),
           style |-> style,
           beta_warning |-> args.beta_warning,
           use_embed |-> args.use_embed,
           embed_color |-> optional_str(args.embed_color),
           thumbnail_url |-> optional_str(args.thumbnail_url),
           footer_text |-> footer_text,
           username |-> username,
           response_format |-> response_format])))))))))

\* ------------------------------------------------------------------------
\* What a call of a tool function comes to
\* ------------------------------------------------------------------------

\* What a tool function hands back: the string it returns, or the exception
\* that leaves it.
Returned(text) == [how |-> "returned", text |-> text, exc |-> ""]
Raised(e) == [how |-> "raised", text |-> e.msg, exc |-> e.exc]
NoReturn == [how |-> "none", text |-> <<>>, exc |-> ""]

NoPost == [url |-> <<>>, payload |-> None]

\* A tool function run from its call to its return, or to its await of
\* client.post: what it hands back, the POST it has issued and the file it
\* leaves.
Done(text, f) == [ret |-> Returned(text), post |-> NoPost, file |-> f]

\* A variant of Awaiting that saves an empty registry before the POST:
\* OnlyAddAndRemoveWrite must tell it from Awaiting
Awaiting_saved(url, payload, f) ==
    [ret |-> NoReturn, post |-> [url |-> url, payload |-> payload],
     file |-> _save_webhooks(f, Obj(<<>>)).v]

Awaiting(url, payload, f) ==
    [ret |-> NoReturn, post |-> [url |-> url, payload |-> payload], file |-> f]
Rejected(e, f) == [ret |-> Raised(e), post |-> NoPost, file |-> f]

\* ------------------------------------------------------------------------
\* The registry tools
\* ------------------------------------------------------------------------

\* The registry entry add-webhook stores; now is datetime.now().isoformat()
new_entry(params, now) ==
    Obj(<<Item(<<"u", "r", "l">>, Str(params.url)),
          Item(<<"d", "e", "s", "c", "r", "i", "p", "t", "i", "o", "n">>, params.description),
          Item(<<"a", "d", "d", "e", "d", "_", "a", "t">>, Str(now))>>)

\* A variant of add_entry that writes the entry into a registry of its own,
\* as a writer would that did not see the entries written since it was
\* dispatched: NoLostUpdate must tell it from add_entry
add_entry_alone(webhooks, params, now) ==
    setitem(Obj(<<>>), params.name, new_entry(params, now))

\* webhooks[params.name] = {...} in discord_add_webhook
add_entry(webhooks, params, now) == setitem(webhooks, params.name, new_entry(params, now))

\* discord_add_webhook(params)
add_webhook_body(f, params, now) ==
    catch(try(_load_webhooks(f), LAMBDA webhooks :
          try(in_(params.name, webhooks), LAMBDA is_update :
          try(add_entry(webhooks, params, now), LAMBDA updated :
          try(_save_webhooks(f, updated), LAMBDA saved :
          Value(Done(<<"W", "e", "b", "h", "o", "o", "k", " ", "'">> \o params.name \o <<"'", " ">>
                     \o (IF is_update THEN <<"u", "p", "d", "a", "t", "e", "d">> ELSE <<"a", "d", "d", "e", "d">>)
                     \o <<" ", "s", "u", "c", "c", "e", "s", "s", "f", "u", "l", "l", "y", ".", " ", "Y", "o", "u", " ", "c", "a", "n", " ", "n", "o", "w", " ", "u", "s", "e", " ", "i", "t", " ", "w", "i", "t", "h", " ", "d", "i", "s", "c", "o", "r", "d", "_", "s", "e", "n", "d", "_", "m", "e", "s", "s", "a", "g", "e", " ", "o", "r", " ", "d", "i", "s", "c", "o", "r", "d", "_", "s", "e", "n", "d", "_", "a", "n", "n", "o", "u", "n", "c", "e", "m", "e", "n", "t", ".">>,
                     saved)))))),
          LAMBDA e : Done(<<"E", "r", "r", "o", "r", ":", " ", "F", "a", "i", "l", "e", "d", " ", "t", "o", " ", "s", "a", "v", "e", " ", "w", "e", "b", "h", "o", "o", "k", " ", "c", "o", "n", "f", "i", "g", "u", "r", "a", "t", "i", "o", "n", ":", " ">> \o e.msg, f))

\* list(webhooks.keys()) if webhooks else []
available_names(webhooks) ==
    IF truthy(webhooks) THEN keys(webhooks) ELSE Value(Arr(<<>>))

\* ', '.join(available)
joined_names(available) ==
    join(<<",", " ">>, [i \in 1..Len(available.xs) |-> available.xs[i].s])

\* discord_remove_webhook(params)
remove_webhook_body(f, params) ==
    catch(try(_load_webhooks(f), LAMBDA webhooks :
          bind(lower(params.name), LAMBDA name_lower :
          try(in_(name_lower, webhooks), LAMBDA present :
          IF ~present
          THEN try(available_names(webhooks), LAMBDA available :
               IF truthy(available)
               THEN Value(Done(<<"E", "r", "r", "o", "r", ":", " ", "W", "e", "b", "h", "o", "o", "k", " ", "'">> \o params.name
                               \o <<"'", " ", "n", "o", "t", " ", "f", "o", "u", "n", "d", ".", " ", "A", "v", "a", "i", "l", "a", "b", "l", "e", " ", "w", "e", "b", "h", "o", "o", "k", "s", ":", " ">>
                               \o joined_names(available), f))
               ELSE Value(Done(<<"E", "r", "r", "o", "r", ":", " ", "W", "e", "b", "h", "o", "o", "k", " ", "'">> \o params.name
                               \o <<"'", " ", "n", "o", "t", " ", "f", "o", "u", "n", "d", ".", " ", "N", "o", " ", "w", "e", "b", "h", "o", "o", "k", "s", " ", "c", "o", "n", "f", "i", "g", "u", "r", "e", "d", ".">>, f)))
          ELSE try(delitem(webhooks, name_lower), LAMBDA updated :
               try(_save_webhooks(f, updated), LAMBDA saved :
               Value(Done(<<"W", "e", "b", "h", "o", "o", "k", " ", "'">> \o params.name \o <<"'", " ", "r", "e", "m", "o", "v", "e", "d", " ", "s", "u", "c", "c", "e", "s", "s", "f", "u", "l", "l", "y", ".">>,
                          saved))))))),
          LAMBDA e : Done(<<"E", "r", "r", "o", "r", ":", " ", "F", "a", "i", "l", "e", "d", " ", "t", "o", " ", "r", "e", "m", "o", "v", "e", " ", "w", "e", "b", "h", "o", "o", "k", ":", " ">> \o e.msg, f))

\* url[-8:]
last_chars(url) ==
    CASE url.t = "str" -> Value(tail(url.s, URL_HINT_LENGTH))
      [] url.t = "arr" -> Value(repr(Arr(tail(url.xs, URL_HINT_LENGTH))))
      [] OTHER -> Raise("TypeError", <<"u", "n", "h", "a", "s", "h", "a", "b", "l", "e", " ", "t", "y", "p", "e", ":", " ", "'", "s", "l", "i", "c", "e", "'">>)

\* A variant of url_hint that hands out the URL itself: HintIsAllOfTheUrl
\* must tell it from url_hint
url_unredacted(url) == Value(url)

\* url_hint = f"...{url[-8:]}" if len(url) > 8 else url
url_hint(url) ==
    try(len(url), LAMBDA length :
    IF length > URL_HINT_LENGTH
    THEN try(last_chars(url), LAMBDA last : Value(Str(<<".", ".", ".">> \o last)))
    ELSE Value(url))

\* One pass of the loop over webhooks.items() in the JSON branch: the item
\* it puts in sanitized
sanitized_item(name, config) ==
    try(get_default(config, <<"u", "r", "l">>, Str(<<>>)), LAMBDA url :
    try(url_hint(url), LAMBDA hint :
    Value(Item(name, Obj(<<Item(<<"d", "e", "s", "c", "r", "i", "p", "t", "i", "o", "n">>, get(config, <<"d", "e", "s", "c", "r", "i", "p", "t", "i", "o", "n">>).v),
                           Item(<<"u", "r", "l", "_", "h", "i", "n", "t">>, hint),
                           Item(<<"a", "d", "d", "e", "d", "_", "a", "t">>, get(config, <<"a", "d", "d", "e", "d", "_", "a", "t">>).v)>>)))))

\* One pass of the loop over webhooks.items() in the markdown branch: the
\* lines it appends
markdown_section(name, config) ==
    try(get_default(config, <<"u", "r", "l">>, Str(<<>>)), LAMBDA url :
    try(url_hint(url), LAMBDA hint :
    Value(<<<<"#", "#", " ">> \o name,
            <<"-", " ", "*", "*", "D", "e", "s", "c", "r", "i", "p", "t", "i", "o", "n", "*", "*", ":", " ">>
                \o str(get_default(config, <<"d", "e", "s", "c", "r", "i", "p", "t", "i", "o", "n">>, Str(<<"N", "o", " ", "d", "e", "s", "c", "r", "i", "p", "t", "i", "o", "n">>)).v),
            <<"-", " ", "*", "*", "U", "R", "L", " ", "h", "i", "n", "t", "*", "*", ":", " ", "U+0060">> \o str(hint) \o <<"U+0060">>,
            <<"-", " ", "*", "*", "A", "d", "d", "e", "d", "*", "*", ":", " ">> \o str(get_default(config, <<"a", "d", "d", "e", "d", "_", "a", "t">>, Str(<<"U", "n", "k", "n", "o", "w", "n">>)).v),
            <<>>>>)))

\* The JSON branch of discord_list_webhooks
list_json(webhooks) ==
    try(items(webhooks), LAMBDA entries :
    try(all_of([i \in 1..Len(entries) |-> sanitized_item(entries[i].k, entries[i].v)]),
        LAMBDA sanitized :
    Value(json_dumps(Obj(sanitized)))))

\* The markdown branch of discord_list_webhooks
list_markdown(webhooks) ==
    try(items(webhooks), LAMBDA entries :
    try(all_of([i \in 1..Len(entries) |-> markdown_section(entries[i].k, entries[i].v)]),
        LAMBDA sections :
    Value(join(<<"\n">>,
               <<<<"#", " ", "C", "o", "n", "f", "i", "g", "u", "r", "e", "d", " ", "D", "i", "s", "c", "o", "r", "d", " ", "W", "e", "b", "h", "o", "o", "k", "s">>, <<>>>> \o flatten(sections)))))

\* discord_list_webhooks(params)
list_webhooks_body(f, params) ==
    Done(catch(try(_load_webhooks(f), LAMBDA webhooks :
               IF ~truthy(webhooks)
               THEN Value(<<"N", "o", " ", "w", "e", "b", "h", "o", "o", "k", "s", " ", "c", "o", "n", "f", "i", "g", "u", "r", "e", "d", ".", " ", "U", "s", "e", " ", "d", "i", "s", "c", "o", "r", "d", "_", "a", "d", "d", "_", "w", "e", "b", "h", "o", "o", "k", " ", "t", "o", " ", "a", "d", "d", " ", "o", "n", "e", ".">>)
               ELSE IF params.response_format = "json" THEN list_json(webhooks)
               ELSE list_markdown(webhooks)),
               LAMBDA e : <<"E", "r", "r", "o", "r", ":", " ", "F", "a", "i", "l", "e", "d", " ", "t", "o", " ", "l", "i", "s", "t", " ", "w", "e", "b", "h", "o", "o", "k", "s", ":", " ">> \o e.msg),
         f)

\* ------------------------------------------------------------------------
\* Message formatter
\* ------------------------------------------------------------------------

ARROW == <<"U+2192">>

LIVING_LANDS_LOGO_URL ==
    <<"h", "t", "t", "p", "s", ":", "/", "/", "r", "a", "w", ".", "g", "i", "t", "h", "u", "b", "u", "s", "e", "r", "c", "o", "n", "t", "e", "n", "t", ".", "c", "o", "m", "/", "M", "o", "s", "h", "P", "i", "t", "C", "o", "d", "e", "s", "/", "h", "y", "t", "a", "l", "e", "-", "l", "i", "v", "i", "n", "g", "l", "a", "n", "d", "s", "/", "m", "a", "i", "n", "/", ".", "g", "i", "t", "h", "u", "b", "/", "a", "s", "s", "e", "t", "s", "/", "l", "o", "g", "o", "/", "h", "y", "t", "a", "l", "e", "-", "l", "i", "v", "i", "n", "g", "l", "a", "n", "d", "s", "-", "l", "o", "g", "o", ".", "p", "n", "g">>

\* emoji_map
emoji_map(style) ==
    CASE style = "release" -> <<"U+1F4E6">>
      [] style = "hotfix" -> <<"U+1F6A8">>
      [] style = "beta" -> <<"U+1F9EA">>
      [] style = "custom" -> <<"U+1F4E2">>

COLOR_RELEASE == 5763719

COLOR_HOTFIX == 15548997

COLOR_BETA == 16705372

COLOR_CUSTOM == 5793266

\* color_map
color_map(style) ==
    CASE style = "release" -> COLOR_RELEASE
      [] style = "hotfix" -> COLOR_HOTFIX
      [] style = "beta" -> COLOR_BETA
      [] style = "custom" -> COLOR_CUSTOM

\* The line of one change in _format_announcement
change_line(change) ==
    IF ~startswith(change, ARROW) /\ ~startswith(change, <<"-", ">">>)
    THEN ARROW \o <<" ">> \o change
    ELSE replace(change, <<"-", ">">>, ARROW)

\* _format_announcement(version, headline, changes, download_url, style, beta_warning)
_format_announcement(version, headline, changes, download_url, style, beta_warning) ==
    join(<<"\n">>,
         <<emoji_map(style) \o <<" ", "*", "*">> \o version \o <<"*", "*", " ", "i", "s", " ", "l", "i", "v", "e", "!">>, <<>>, headline, <<>>>>
         \o [i \in 1..Len(changes) |-> change_line(changes[i])]
         \o (IF beta_warning
             THEN <<<<>>, <<"U+26A0", "U+FE0F", " ", "B", "e", "t", "a", " ", "U+2014", " ", "b", "a", "c", "k", " ", "u", "p", " ", "y", "o", "u", "r", " ", "w", "o", "r", "l", "d", " ", "b", "e", "f", "o", "r", "e", " ", "u", "p", "d", "a", "t", "i", "n", "g", ".">>>>
             ELSE <<>>)
         \o (IF truthy(download_url)
             THEN <<<<"U+1F517", " ">> \o download_url.s>>
             ELSE <<>>))

\* A variant of parsed_colour that takes the style's colour whatever the
\* custom colour is: EmbedColourAsStated must tell it from parsed_colour
parsed_colour_ignored(parsed, style) == color_map(style)

\* int(embed_color.lstrip('#'), 16), or the style's colour on ValueError
parsed_colour(parsed, style) == IF parsed.ok THEN parsed.n ELSE color_map(style)

\* The colour of the embed
embed_colour(style, embed_color) ==
    IF truthy(embed_color)
    THEN parsed_colour(int16(lstrip(embed_color.s, "#")), style)
    ELSE color_map(style)

Field(name, value) ==
    Obj(<<Item(<<"n", "a", "m", "e">>, Str(name)), Item(<<"v", "a", "l", "u", "e">>, Str(value)),
          Item(<<"i", "n", "l", "i", "n", "e">>, Bool(FALSE))>>)

\* embed["fields"].append(field) if "fields" in embed, else embed["fields"] = [field]
append_field(embed, field) ==
    IF has_key(embed, <<"f", "i", "e", "l", "d", "s">>)
    THEN set(embed, <<"f", "i", "e", "l", "d", "s">>, Arr(Append(item_of(embed, <<"f", "i", "e", "l", "d", "s">>).xs, field)))
    ELSE set(embed, <<"f", "i", "e", "l", "d", "s">>, Arr(<<field>>))

\* The embed as first built
embed_base(version, headline, style, embed_color, utcnow) ==
    Obj(<<Item(<<"t", "i", "t", "l", "e">>, Str(emoji_map(style) \o <<" ">> \o version \o <<" ", "i", "s", " ", "l", "i", "v", "e", "!">>)),
          Item(<<"d", "e", "s", "c", "r", "i", "p", "t", "i", "o", "n">>, Str(headline)),
          Item(<<"c", "o", "l", "o", "r">>, Num(embed_colour(style, embed_color))),
          Item(<<"t", "i", "m", "e", "s", "t", "a", "m", "p">>, Str(utcnow \o <<"Z">>))>>)

\* if changes: embed["fields"] = [...]
with_changes(embed, changes) ==
    IF Len(changes) > 0
    THEN set(embed, <<"f", "i", "e", "l", "d", "s">>,
             Arr(<<Field(<<"W", "h", "a", "t", "'", "s", " ", "N", "e", "w">>,
                         join(<<"\n">>, [i \in 1..Len(changes) |->
                                           ARROW \o <<" ">> \o changes[i]]))>>))
    ELSE embed

\* if beta_warning: ...
with_warning(embed, beta_warning) ==
    IF beta_warning
    THEN append_field(embed, Field(<<"U+26A0", "U+FE0F", " ", "W", "a", "r", "n", "i", "n", "g">>,
             <<"T", "h", "i", "s", " ", "i", "s", " ", "a", " ", "*", "*", "b", "e", "t", "a", " ", "r", "e", "l", "e", "a", "s", "e", "*", "*", ".", " ", "B", "a", "c", "k", " ", "u", "p", " ", "y", "o", "u", "r", " ", "w", "o", "r", "l", "d", " ", "b", "e", "f", "o", "r", "e", " ", "u", "p", "d", "a", "t", "i", "n", "g", "!">>))
    ELSE embed

\* if download_url: ...
with_download(embed, download_url) ==
    IF truthy(download_url)
    THEN append_field(set(embed, <<"u", "r", "l">>, download_url),
                      Field(<<"U+1F517", " ", "D", "o", "w", "n", "l", "o", "a", "d">>,
                            <<"[", "G", "e", "t", " ", "i", "t", " ", "h", "e", "r", "e", "]", "(">> \o download_url.s \o <<")">>))
    ELSE embed

\* if thumbnail_url: ...
with_thumbnail(embed, thumbnail_url) ==
    IF truthy(thumbnail_url)
    THEN set(embed, <<"t", "h", "u", "m", "b", "n", "a", "i", "l">>, Obj(<<Item(<<"u", "r", "l">>, thumbnail_url)>>))
    ELSE embed

\* embed["footer"] = {"text": footer_text or "Release Announcement"}
with_footer(embed, footer_text) ==
    set(embed, <<"f", "o", "o", "t", "e", "r">>,
        Obj(<<Item(<<"t", "e", "x", "t">>, IF truthy(footer_text) THEN footer_text
                             ELSE Str(<<"R", "e", "l", "e", "a", "s", "e", " ", "A", "n", "n", "o", "u", "n", "c", "e", "m", "e", "n", "t">>))>>))

\* _build_announcement_embed(...); utcnow is datetime.utcnow().isoformat()
_build_announcement_embed(version, headline, changes, download_url, style, beta_warning, embed_color, thumbnail_url, footer_text, utcnow) ==
    with_footer(
        with_thumbnail(
            with_download(
                with_warning(
                    with_changes(embed_base(version, headline, style, embed_color, utcnow),
                                 changes),
                    beta_warning),
                download_url),
            thumbnail_url),
        footer_text)

\* ------------------------------------------------------------------------
\* Dispatch client
\* ------------------------------------------------------------------------

STATUS_NO_CONTENT == 204

STATUS_OK == 200

\* payload[key] = value if value
with_item(payload, key, value) ==
    IF truthy(value) THEN set(payload, key, value) ELSE payload

\* The payload _send_webhook_message builds
build_payload(content, username, avatar_url, embeds) ==
    with_item(with_item(with_item(with_item(Obj(<<>>),
        <<"c", "o", "n", "t", "e", "n", "t">>, content), <<"u", "s", "e", "r", "n", "a", "m", "e">>, username), <<"a", "v", "a", "t", "a", "r", "_", "u", "r", "l">>, avatar_url),
        <<"e", "m", "b", "e", "d", "s">>, embeds)

\* What client.post comes back with: a response (its status code, its text
\* and what response.json() makes of the text), or an exception of httpx.
Response(status, text, json) ==
    [exc |-> "", msg |-> <<>>, status |-> status, text |-> text, json |-> json]
TransportError(type, msg) ==
    [exc |-> type, msg |-> msg, status |-> 0, text |-> <<>>, json |-> Value(None)]

JSONDecodeError == Raise("JSONDecodeError", <<"E", "x", "p", "e", "c", "t", "i", "n", "g", " ", "v", "a", "l", "u", "e", ":", " ", "l", "i", "n", "e", " ", "1", " ", "c", "o", "l", "u", "m", "n", " ", "1", " ", "(", "c", "h", "a", "r", " ", "0", ")">>)

\* try: error_json = response.json(); error_text = error_json.get("message", error_text)
\* except (json.JSONDecodeError, ValueError): pass
error_text_of(response) ==
    IF response.json.exc # "" THEN Value(Str(response.text))
    ELSE get_default(response.json.v, <<"m", "e", "s", "s", "a", "g", "e">>, Str(response.text))

\* response.json() if response.text else None
response_body(response) ==
    IF response.text # <<>> THEN response.json ELSE Value(None)

\* _send_webhook_message from the return of client.post on: the result dict,
\* or the exception that leaves it
dispatch_result(response) ==
    IF response.exc # "" THEN Raise(response.exc, response.msg)
    ELSE IF response.status = STATUS_NO_CONTENT
    THEN Value(Obj(<<Item(<<"s", "u", "c", "c", "e", "s", "s">>, Bool(TRUE)),
                     Item(<<"s", "t", "a", "t", "u", "s", "_", "c", "o", "d", "e">>, Num(STATUS_NO_CONTENT)),
                     Item(<<"m", "e", "s", "s", "a", "g", "e">>, Str(<<"M", "e", "s", "s", "a", "g", "e", " ", "s", "e", "n", "t", " ", "s", "u", "c", "c", "e", "s", "s", "f", "u", "l", "l", "y">>))>>))
    ELSE IF response.status = STATUS_OK
    THEN try(response_body(response), LAMBDA body :
         Value(Obj(<<Item(<<"s", "u", "c", "c", "e", "s", "s">>, Bool(TRUE)),
                     Item(<<"s", "t", "a", "t", "u", "s", "_", "c", "o", "d", "e">>, Num(STATUS_OK)),
                     Item(<<"m", "e", "s", "s", "a", "g", "e">>, Str(<<"M", "e", "s", "s", "a", "g", "e", " ", "s", "e", "n", "t", " ", "s", "u", "c", "c", "e", "s", "s", "f", "u", "l", "l", "y">>)),
                     Item(<<"r", "e", "s", "p", "o", "n", "s", "e">>, body)>>)))
    ELSE try(error_text_of(response), LAMBDA error_text :
         Value(Obj(<<Item(<<"s", "u", "c", "c", "e", "s", "s">>, Bool(FALSE)),
                     Item(<<"s", "t", "a", "t", "u", "s", "_", "c", "o", "d", "e">>, Num(response.status)),
                     Item(<<"e", "r", "r", "o", "r">>, error_text)>>)))

\* The status-code table of _handle_error
status_message(status) ==
    CASE status = 400 -> <<"E", "r", "r", "o", "r", ":", " ", "B", "a", "d", " ", "r", "e", "q", "u", "e", "s", "t", ".", " ", "C", "h", "e", "c", "k", " ", "t", "h", "a", "t", " ", "t", "h", "e", " ", "m", "e", "s", "s", "a", "g", "e", " ", "c", "o", "n", "t", "e", "n", "t", " ", "i", "s", " ", "v", "a", "l", "i", "d", " ", "a", "n", "d", " ", "w", "i", "t", "h", "i", "n", " ", "D", "i", "s", "c", "o", "r", "d", "'", "s", " ", "l", "i", "m", "i", "t", "s", ".">>
      [] status = 401 -> <<"E", "r", "r", "o", "r", ":", " ", "U", "n", "a", "u", "t", "h", "o", "r", "i", "z", "e", "d", ".", " ", "T", "h", "e", " ", "w", "e", "b", "h", "o", "o", "k", " ", "U", "R", "L", " ", "m", "a", "y", " ", "b", "e", " ", "i", "n", "v", "a", "l", "i", "d", " ", "o", "r", " ", "e", "x", "p", "i", "r", "e", "d", ".">>
      [] status = 403 -> <<"E", "r", "r", "o", "r", ":", " ", "F", "o", "r", "b", "i", "d", "d", "e", "n", ".", " ", "T", "h", "e", " ", "w", "e", "b", "h", "o", "o", "k", " ", "m", "a", "y", " ", "h", "a", "v", "e", " ", "b", "e", "e", "n", " ", "d", "e", "l", "e", "t", "e", "d", " ", "o", "r", " ", "y", "o", "u", " ", "d", "o", "n", "'", "t", " ", "h", "a", "v", "e", " ", "p", "e", "r", "m", "i", "s", "s", "i", "o", "n", ".">>
      [] status = 404 -> <<"E", "r", "r", "o", "r", ":", " ", "W", "e", "b", "h", "o", "o", "k", " ", "n", "o", "t", " ", "f", "o", "u", "n", "d", ".", " ", "T", "h", "e", " ", "w", "e", "b", "h", "o", "o", "k", " ", "U", "R", "L", " ", "m", "a", "y", " ", "b", "e", " ", "i", "n", "v", "a", "l", "i", "d", " ", "o", "r", " ", "d", "e", "l", "e", "t", "e", "d", ".">>
      [] status = 429 -> <<"E", "r", "r", "o", "r", ":", " ", "R", "a", "t", "e", " ", "l", "i", "m", "i", "t", "e", "d", ".", " ", "T", "o", "o", " ", "m", "a", "n", "y", " ", "r", "e", "q", "u", "e", "s", "t", "s", ".", " ", "P", "l", "e", "a", "s", "e", " ", "w", "a", "i", "t", " ", "b", "e", "f", "o", "r", "e", " ", "s", "e", "n", "d", "i", "n", "g", " ", "m", "o", "r", "e", " ", "m", "e", "s", "s", "a", "g", "e", "s", ".">>
      [] OTHER -> <<"E", "r", "r", "o", "r", ":", " ", "D", "i", "s", "c", "o", "r", "d", " ", "A", "P", "I", " ", "r", "e", "t", "u", "r", "n", "e", "d", " ", "s", "t", "a", "t", "u", "s", " ">> \o str_int(status)

\* type(e).__name__
exception_name(exc) ==
    CASE exc = "AttributeError" -> <<"A", "t", "t", "r", "i", "b", "u", "t", "e", "E", "r", "r", "o", "r">>
      [] exc = "TypeError" -> <<"T", "y", "p", "e", "E", "r", "r", "o", "r">>
      [] exc = "UnicodeDecodeError" -> <<"U", "n", "i", "c", "o", "d", "e", "D", "e", "c", "o", "d", "e", "E", "r", "r", "o", "r">>
      [] exc = "JSONDecodeError" -> <<"J", "S", "O", "N", "D", "e", "c", "o", "d", "e", "E", "r", "r", "o", "r">>
      [] exc = "PermissionError" -> <<"P", "e", "r", "m", "i", "s", "s", "i", "o", "n", "E", "r", "r", "o", "r">>
      [] exc = "ConnectTimeout" -> <<"C", "o", "n", "n", "e", "c", "t", "T", "i", "m", "e", "o", "u", "t">>
      [] exc = "ReadTimeout" -> <<"R", "e", "a", "d", "T", "i", "m", "e", "o", "u", "t">>
      [] exc = "WriteTimeout" -> <<"W", "r", "i", "t", "e", "T", "i", "m", "e", "o", "u", "t">>
      [] exc = "PoolTimeout" -> <<"P", "o", "o", "l", "T", "i", "m", "e", "o", "u", "t">>
      [] exc = "ConnectError" -> <<"C", "o", "n", "n", "e", "c", "t", "E", "r", "r", "o", "r">>
      [] exc = "ReadError" -> <<"R", "e", "a", "d", "E", "r", "r", "o", "r">>
      [] exc = "RemoteProtocolError" -> <<"R", "e", "m", "o", "t", "e", "P", "r", "o", "t", "o", "c", "o", "l", "E", "r", "r", "o", "r">>
      [] exc = "HTTPStatusError" -> <<"H", "T", "T", "P", "S", "t", "a", "t", "u", "s", "E", "r", "r", "o", "r">>

\* The classes of httpx.TimeoutException
TimeoutExceptions == {"ConnectTimeout", "ReadTimeout", "WriteTimeout", "PoolTimeout"}

\* _handle_error(e); an HTTPStatusError carries its response's status code
_handle_error(e) ==
    IF e.exc = "HTTPStatusError" THEN status_message(e.v.n)
    ELSE IF e.exc \in TimeoutExceptions
    THEN <<"E", "r", "r", "o", "r", ":", " ", "R", "e", "q", "u", "e", "s", "t", " ", "t", "i", "m", "e", "d", " ", "o", "u", "t", ".", " ", "D", "i", "s", "c", "o", "r", "d", " ", "m", "a", "y", " ", "b", "e", " ", "e", "x", "p", "e", "r", "i", "e", "n", "c", "i", "n", "g", " ", "i", "s", "s", "u", "e", "s", ".", " ", "P", "l", "e", "a", "s", "e", " ", "t", "r", "y", " ", "a", "g", "a", "i", "n", ".">>
    ELSE IF e.exc = "ConnectError"
    THEN <<"E", "r", "r", "o", "r", ":", " ", "C", "o", "u", "l", "d", " ", "n", "o", "t", " ", "c", "o", "n", "n", "e", "c", "t", " ", "t", "o", " ", "D", "i", "s", "c", "o", "r", "d", ".", " ", "C", "h", "e", "c", "k", " ", "y", "o", "u", "r", " ", "i", "n", "t", "e", "r", "n", "e", "t", " ", "c", "o", "n", "n", "e", "c", "t", "i", "o", "n", ".">>
    ELSE <<"E", "r", "r", "o", "r", ":", " ">> \o exception_name(e.exc) \o <<":", " ">> \o e.msg

\* ------------------------------------------------------------------------
\* The send tools, up to the POST and from the response on
\* ------------------------------------------------------------------------

\* The text returned for a webhook_name with no URL; suffix_some and
\* suffix_none end the two messages
not_found(f, webhook_name, suffix_some, suffix_none) ==
    try(_load_webhooks(f), LAMBDA webhooks :
    try(available_names(webhooks), LAMBDA available :
    IF truthy(available)
    THEN Value(<<"E", "r", "r", "o", "r", ":", " ", "W", "e", "b", "h", "o", "o", "k", " ", "'">> \o webhook_name \o <<"'", " ", "n", "o", "t", " ", "f", "o", "u", "n", "d", ".", " ", "A", "v", "a", "i", "l", "a", "b", "l", "e", " ", "w", "e", "b", "h", "o", "o", "k", "s", ":", " ">>
               \o joined_names(available) \o suffix_some)
    ELSE Value(<<"E", "r", "r", "o", "r", ":", " ", "W", "e", "b", "h", "o", "o", "k", " ", "'">> \o webhook_name
               \o <<"'", " ", "n", "o", "t", " ", "f", "o", "u", "n", "d", ".", " ", "N", "o", " ", "w", "e", "b", "h", "o", "o", "k", "s", " ", "c", "o", "n", "f", "i", "g", "u", "r", "e", "d", ".", " ">> \o suffix_none)))

\* The URL client.post is called with: httpx takes a str
post_url(webhook_url) ==
    IF webhook_url.t = "str" THEN Value(webhook_url.s)
    ELSE Raise("TypeError", <<"I", "n", "v", "a", "l", "i", "d", " ", "t", "y", "p", "e", " ", "f", "o", "r", " ", "u", "r", "l", ".", " ", " ", "E", "x", "p", "e", "c", "t", "e", "d", " ", "s", "t", "r", " ", "o", "r", " ", "h", "t", "t", "p", "x", ".", "U", "R", "L", ",", " ", "g", "o", "t", " ">>
                            \o type_name(webhook_url))

\* discord_send_message(params) up to the await of client.post
send_message_start(f, params) ==
    catch(try(_get_webhook_url(f, params.webhook_name), LAMBDA webhook_url :
          IF ~truthy(webhook_url)
          THEN try(not_found(f, params.webhook_name,
                             <<".", " ", "U", "s", "e", " ", "d", "i", "s", "c", "o", "r", "d", "_", "a", "d", "d", "_", "w", "e", "b", "h", "o", "o", "k", " ", "t", "o", " ", "a", "d", "d", " ", "a", " ", "n", "e", "w", " ", "o", "n", "e", ".">>,
                             <<"U", "s", "e", " ", "d", "i", "s", "c", "o", "r", "d", "_", "a", "d", "d", "_", "w", "e", "b", "h", "o", "o", "k", " ", "t", "o", " ", "a", "d", "d", " ", "o", "n", "e", " ", "f", "i", "r", "s", "t", ".">>),
                   LAMBDA text : Value(Done(text, f)))
          ELSE try(post_url(webhook_url), LAMBDA url :
               Value(Awaiting(url,
                              build_payload(Str(params.content), params.username,
                                            params.avatar_url, None),
                              f)))),
          LAMBDA e : Done(_handle_error(e), f))

\* result.get('error', 'Unknown error') in an f-string
error_of(result) == str(get_default(result, <<"e", "r", "r", "o", "r">>, Str(<<"U", "n", "k", "n", "o", "w", "n", " ", "e", "r", "r", "o", "r">>)).v)

\* result["success"]
success(result) == item_of(result, <<"s", "u", "c", "c", "e", "s", "s">>).b

\* discord_send_message(params) from the return of client.post on
send_message_finish(params, response) ==
    catch(try(dispatch_result(response), LAMBDA result :
          IF params.response_format = "json" THEN Value(json_dumps(result))
          ELSE IF success(result)
          THEN Value(<<"M", "e", "s", "s", "a", "g", "e", " ", "s", "e", "n", "t", " ", "s", "u", "c", "c", "e", "s", "s", "f", "u", "l", "l", "y", " ", "t", "o", " ", "'">> \o params.webhook_name
                     \o <<"'", " ", "w", "e", "b", "h", "o", "o", "k", ".">>)
          ELSE Value(<<"E", "r", "r", "o", "r", ":", " ", "F", "a", "i", "l", "e", "d", " ", "t", "o", " ", "s", "e", "n", "d", " ", "m", "e", "s", "s", "a", "g", "e", ".", " ">> \o error_of(result))),
          LAMBDA e : _handle_error(e))

\* The embed discord_send_announcement builds
announcement_embed(params, utcnow) ==
    _build_announcement_embed(params.version, params.headline, params.changes,
        params.download_url, params.style, params.beta_warning, params.embed_color,
        IF truthy(params.thumbnail_url) THEN params.thumbnail_url
        ELSE Str(LIVING_LANDS_LOGO_URL),
        params.footer_text, utcnow)

\* The text discord_send_announcement builds
announcement_text(params) ==
    _format_announcement(params.version, params.headline, params.changes,
                         params.download_url, params.style, params.beta_warning)

\* A variant of too_long that lets through an announcement one character
\* over the limit: LongAnnouncementNotPosted must tell it from too_long
too_long_by_two(announcement) == Len(announcement) > DISCORD_MESSAGE_LIMIT + 1

\* len(announcement) > DISCORD_MESSAGE_LIMIT
too_long(announcement) == Len(announcement) > DISCORD_MESSAGE_LIMIT

\* The error returned for an announcement that is too long
too_long_error(announcement) ==
    <<"E", "r", "r", "o", "r", ":", " ", "A", "n", "n", "o", "u", "n", "c", "e", "m", "e", "n", "t", " ", "i", "s", " ", "t", "o", "o", " ", "l", "o", "n", "g", " ", "(">> \o str_int(Len(announcement))
    \o <<" ", "c", "h", "a", "r", "s", ")", ".", " ", "D", "i", "s", "c", "o", "r", "d", " ", "l", "i", "m", "i", "t", " ", "i", "s", " ">> \o str_int(DISCORD_MESSAGE_LIMIT)
    \o <<" ", "c", "h", "a", "r", "a", "c", "t", "e", "r", "s", ".", " ", "R", "e", "d", "u", "c", "e", " ", "t", "h", "e", " ", "n", "u", "m", "b", "e", "r", " ", "o", "f", " ", "c", "h", "a", "n", "g", "e", "s", " ", "o", "r", " ", "s", "h", "o", "r", "t", "e", "n", " ", "d", "e", "s", "c", "r", "i", "p", "t", "i", "o", "n", "s", ".">>

\* The plain-text branch of discord_send_announcement up to the await
send_text_start(f, params, webhook_url, announcement) ==
    IF too_long(announcement) THEN Value(Done(too_long_error(announcement), f))
    ELSE try(post_url(webhook_url), LAMBDA url :
         Value(Awaiting(url,
                        build_payload(Str(announcement), params.username, None, None),
                        f)))

\* The embed branch of discord_send_announcement up to the await
send_embed_start(f, params, webhook_url, utcnow) ==
    bind(announcement_embed(params, utcnow), LAMBDA embed :
    try(post_url(webhook_url), LAMBDA url :
    Value(Awaiting(url, build_payload(None, params.username, None, Arr(<<embed>>)), f))))

\* discord_send_announcement(params) up to the await of client.post
send_announcement_start(f, params, utcnow) ==
    catch(try(_get_webhook_url(f, params.webhook_name), LAMBDA webhook_url :
          IF ~truthy(webhook_url)
          THEN try(not_found(f, params.webhook_name, <<>>,
                             <<"U", "s", "e", " ", "d", "i", "s", "c", "o", "r", "d", "_", "a", "d", "d", "_", "w", "e", "b", "h", "o", "o", "k", " ", "f", "i", "r", "s", "t", ".">>),
                   LAMBDA text : Value(Done(text, f)))
          ELSE IF params.use_embed
          THEN send_embed_start(f, params, webhook_url, utcnow)
          ELSE send_text_start(f, params, webhook_url, announcement_text(params))),
          LAMBDA e : Done(_handle_error(e), f))

\* The lines of the preview that show the fields of an embed
preview_fields(fields) ==
    flatten([i \in 1..Len(fields) |->
               <<<<"*", "*">> \o item_of(fields[i], <<"n", "a", "m", "e">>).s \o <<"*", "*">>,
                 item_of(fields[i], <<"v", "a", "l", "u", "e">>).s, <<>>>>])

\* The preview of an embed
embed_preview(embed) ==
    join(<<"\n">>,
         <<<<"*", "*">> \o item_of(embed, <<"t", "i", "t", "l", "e">>).s \o <<"*", "*">>,
           item_of(embed, <<"d", "e", "s", "c", "r", "i", "p", "t", "i", "o", "n">>).s, <<>>>>
         \o preview_fields(get_default(embed, <<"f", "i", "e", "l", "d", "s">>, Arr(<<>>)).v.xs))

\* The embed branch of discord_send_announcement from the result on
send_embed_finish(params, embed, result) ==
    IF params.response_format = "json"
    THEN json_dumps(Obj(<<Item(<<"r", "e", "s", "u", "l", "t">>, result),
                          Item(<<"e", "m", "b", "e", "d">>, embed),
                          Item(<<"f", "o", "r", "m", "a", "t">>, Str(<<"e", "m", "b", "e", "d">>))>>))
    ELSE IF success(result)
    THEN <<"E", "m", "b", "e", "d", " ", "a", "n", "n", "o", "u", "n", "c", "e", "m", "e", "n", "t", " ", "s", "e", "n", "t", " ", "s", "u", "c", "c", "e", "s", "s", "f", "u", "l", "l", "y", "!", "\n", "\n", "*", "*", "P", "r", "e", "v", "i", "e", "w", ":", "*", "*", "\n">> \o embed_preview(embed)
    ELSE <<"E", "r", "r", "o", "r", ":", " ", "F", "a", "i", "l", "e", "d", " ", "t", "o", " ", "s", "e", "n", "d", " ", "a", "n", "n", "o", "u", "n", "c", "e", "m", "e", "n", "t", ".", " ">> \o error_of(result)

\* The plain-text branch of discord_send_announcement from the result on
send_text_finish(params, announcement, result) ==
    IF params.response_format = "json"
    THEN json_dumps(Obj(<<Item(<<"r", "e", "s", "u", "l", "t">>, result),
                          Item(<<"a", "n", "n", "o", "u", "n", "c", "e", "m", "e", "n", "t", "_", "p", "r", "e", "v", "i", "e", "w">>, Str(announcement)),
                          Item(<<"c", "h", "a", "r", "a", "c", "t", "e", "r", "_", "c", "o", "u", "n", "t">>, Num(Len(announcement))),
                          Item(<<"f", "o", "r", "m", "a", "t">>, Str(<<"p", "l", "a", "i", "n", "_", "t", "e", "x", "t">>))>>))
    ELSE IF success(result)
    THEN <<"A", "n", "n", "o", "u", "n", "c", "e", "m", "e", "n", "t", " ", "s", "e", "n", "t", " ", "s", "u", "c", "c", "e", "s", "s", "f", "u", "l", "l", "y", "!", "\n", "\n", "*", "*", "P", "r", "e", "v", "i", "e", "w", ":", "*", "*", "\n", "U+0060", "U+0060", "U+0060", "\n">>
         \o announcement \o <<"\n", "U+0060", "U+0060", "U+0060">>
    ELSE <<"E", "r", "r", "o", "r", ":", " ", "F", "a", "i", "l", "e", "d", " ", "t", "o", " ", "s", "e", "n", "d", " ", "a", "n", "n", "o", "u", "n", "c", "e", "m", "e", "n", "t", ".", " ">> \o error_of(result)

\* discord_send_announcement(params) from the return of client.post on;
\* payload is what was posted
send_announcement_finish(params, payload, response) ==
    catch(try(dispatch_result(response), LAMBDA result :
          IF params.use_embed
          THEN Value(send_embed_finish(params, item_of(payload, <<"e", "m", "b", "e", "d", "s">>).xs[1], result))
          ELSE Value(send_text_finish(params, item_of(payload, <<"c", "o", "n", "t", "e", "n", "t">>).s, result))),
          LAMBDA e : _handle_error(e))

\* ------------------------------------------------------------------------
\* State
\* ------------------------------------------------------------------------

VARIABLES
    file,   \* what is on disk at WEBHOOKS_FILE
    inv     \* the tool invocations of the host, by slot

vars == <<file, inv>>

Invocations == 1..MaxInvocations

Request(tool, args) == [tool |-> tool, args |-> args]

NoRequest == Request("", None)

NoResponse == Response(0, <<>>, Value(None))

\* An invocation: pc is idle (no call in the slot), pending (dispatched by
\* the host, the tool function not yet running), posting (suspended in
\* client.post) or done (the tool function has ended, and the host has what
\* it ended with); req is the call, post the POST it issued, posts the number
\* of POSTs it issued, resp what client.post came back with, ret what the
\* tool function ended with.
Idle ==
    [pc |-> "idle", req |-> NoRequest, post |-> NoPost, posts |-> 0,
     resp |-> NoResponse, ret |-> NoReturn]

Pending(req) == [Idle EXCEPT !.pc = "pending", !.req = req]

Init ==
    /\ file = MissingFile
    /\ inv = [i \in Invocations |-> Idle]

\* The slot a new invocation takes: the first that holds no call in progress
free(i) ==
    /\ inv[i].pc \in {"idle", "done"}
    /\ \A j \in 1..(i - 1) : inv[j].pc \notin {"idle", "done"}

\* The slots when the host takes a new call: what the calls before it ended
\* with has gone to the client
taken == [j \in Invocations |-> IF inv[j].pc = "done" THEN Idle ELSE inv[j]]

\* The host validates the arguments against the input model of the tool and,
\* if they pass, calls the tool function, which runs to its first await or
\* to its return, on the file f
invoke(f, params, body(_)) ==
    IF params.exc # "" THEN Rejected(params, f) ELSE body(params.v)

\* The @mcp.tool functions: req called on the file f, at the time now
step_of(f, req, now) ==
    CASE req.tool = "discord_send_message" ->
           invoke(f, SendMessageInput(req.args),
                  LAMBDA params : send_message_start(f, params))
      [] req.tool = "discord_send_announcement" ->
           invoke(f, SendAnnouncementInput(req.args),
                  LAMBDA params : send_announcement_start(f, params, now))
      [] req.tool = "discord_add_webhook" ->
           invoke(f, AddWebhookInput(req.args),
                  LAMBDA params : add_webhook_body(f, params, now))
      [] req.tool = "discord_remove_webhook" ->
           invoke(f, RemoveWebhookInput(req.args),
                  LAMBDA params : remove_webhook_body(f, params))
      [] req.tool = "discord_list_webhooks" ->
           invoke(f, ListWebhooksInput(req.args),
                  LAMBDA params : list_webhooks_body(f, params))

\* The slot of a call of req that has come to step
called(req, step) ==
    [pc |-> IF step.ret.how = "none" THEN "posting" ELSE "done",
     req |-> req,
     post |-> step.post,
     posts |-> IF step.ret.how = "none" THEN 1 ELSE 0,
     resp |-> NoResponse,
     ret |-> step.ret]

\* The host takes the call req in slot i and the tool function runs to step
runs(i, req, step) ==
    /\ inv' = [taken EXCEPT ![i] = called(req, step)]
    /\ file' = step.file

\* A tool function from the return of client.post to its own return
finished(slot, response) ==
    IF slot.req.tool = "discord_send_message"
    THEN send_message_finish(SendMessageInput(slot.req.args).v, response)
    ELSE send_announcement_finish(SendAnnouncementInput(slot.req.args).v,
                                  slot.post.payload, response)

\* A variant of resumed that posts once more when client.post has failed:
\* AtMostOnePost must tell it from resumed
resumed_retrying(slot, response) ==
    IF slot.posts = 1
       /\ (response.exc # "" \/ response.status \notin {STATUS_OK, STATUS_NO_CONTENT})
    THEN [slot EXCEPT !.posts = 2, !.resp = response]
    ELSE [slot EXCEPT !.pc = "done", !.resp = response,
                      !.ret = Returned(finished(slot, response))]

\* The invocation of slot once client.post has come back with response
resumed(slot, response) ==
    [slot EXCEPT !.pc = "done", !.resp = response,
                 !.ret = Returned(finished(slot, response))]

\* ------------------------------------------------------------------------
\* Actions.  U is the universe the inputs are drawn from.
\* ------------------------------------------------------------------------

discord_send_message(i, U) ==
    \E args \in U.message_args, now \in U.clock :
        free(i) /\ runs(i, Request("discord_send_message", args),
                         step_of(file, Request("discord_send_message", args), now))

discord_send_announcement(i, U) ==
    \E args \in U.announcement_args, now \in U.clock :
        free(i) /\ runs(i, Request("discord_send_announcement", args),
                         step_of(file, Request("discord_send_announcement", args), now))

discord_add_webhook(i, U) ==
    \E args \in U.add_args, now \in U.clock :
        free(i) /\ runs(i, Request("discord_add_webhook", args),
                         step_of(file, Request("discord_add_webhook", args), now))

discord_remove_webhook(i, U) ==
    \E args \in U.remove_args, now \in U.clock :
        free(i) /\ runs(i, Request("discord_remove_webhook", args),
                         step_of(file, Request("discord_remove_webhook", args), now))

discord_list_webhooks(i, U) ==
    \E args \in U.list_args, now \in U.clock :
        free(i) /\ runs(i, Request("discord_list_webhooks", args),
                         step_of(file, Request("discord_list_webhooks", args), now))

\* client.post comes back, with a response or an exception, and the tool
\* function runs on to its return
post_returns(i, U) ==
    \E response \in U.responses :
        /\ inv[i].pc = "posting"
        /\ inv' = [inv EXCEPT ![i] = resumed(inv[i], response)]
        /\ file' = file

Next(U) ==
    \E i \in Invocations :
        \/ discord_send_message(i, U)
        \/ discord_send_announcement(i, U)
        \/ discord_add_webhook(i, U)
        \/ discord_remove_webhook(i, U)
        \/ discord_list_webhooks(i, U)
        \/ post_returns(i, U)

\* The calls a client may make
requests(U) ==
    {Request("discord_send_message", args) : args \in U.message_args}
    \cup {Request("discord_send_announcement", args) : args \in U.announcement_args}
    \cup {Request("discord_add_webhook", args) : args \in U.add_args}
    \cup {Request("discord_remove_webhook", args) : args \in U.remove_args}
    \cup {Request("discord_list_webhooks", args) : args \in U.list_args}

\* The host takes a call in slot i, and has not yet called the tool function
dispatch(i, U) ==
    \E req \in requests(U) :
        /\ free(i)
        /\ inv' = [taken EXCEPT ![i] = Pending(req)]
        /\ file' = file

\* The event loop calls the tool function of a call the host has taken: it
\* runs to its first await or to its return
run(i, U) ==
    \E now \in U.clock :
        /\ inv[i].pc = "pending"
        /\ inv' = [inv EXCEPT ![i] = called(inv[i].req, step_of(file, inv[i].req, now))]
        /\ file' = step_of(file, inv[i].req, now).file

\* The server with calls that the host has taken and not yet started
NextConcurrent(U) ==
    \E i \in Invocations :
        \/ dispatch(i, U)
        \/ run(i, U)
        \/ post_returns(i, U)

\* Something other than the server writes WEBHOOKS_FILE
file_replaced(U) ==
    \E f \in U.files :
        /\ f # file
        /\ file' = f
        /\ inv' = inv

\* ------------------------------------------------------------------------
\* Inputs
\* ------------------------------------------------------------------------

URL_A ==
    <<"h", "t", "t", "p", "s", ":", "/", "/", "d", "i", "s", "c", "o", "r", "d", ".", "c", "o", "m", "/", "a", "p", "i", "/", "w", "e", "b", "h", "o", "o", "k", "s", "/", "1", "0", "0", "0", "0", "0", "0", "0", "0", "0", "0", "0", "0", "0", "0", "0", "0", "1", "/", "t", "o", "k", "e", "n", "A", "A", "A", "-", "a", "a", "a", "a", "a", "a", "a", "a">>

URL_B ==
    <<"h", "t", "t", "p", "s", ":", "/", "/", "d", "i", "s", "c", "o", "r", "d", "a", "p", "p", ".", "c", "o", "m", "/", "a", "p", "i", "/", "w", "e", "b", "h", "o", "o", "k", "s", "/", "2", "0", "0", "0", "0", "0", "0", "0", "0", "0", "0", "0", "0", "0", "0", "0", "0", "2", "/", "t", "o", "k", "e", "n", "B", "B", "B", "-", "b", "b", "b", "b", "b", "b", "b", "b">>

\* The wrong scheme
URL_HTTP ==
    <<"h", "t", "t", "p", ":", "/", "/", "d", "i", "s", "c", "o", "r", "d", ".", "c", "o", "m", "/", "a", "p", "i", "/", "w", "e", "b", "h", "o", "o", "k", "s", "/", "1", "0", "0", "0", "0", "0", "0", "0", "0", "0", "0", "0", "0", "0", "0", "0", "0", "1", "/", "t", "o", "k", "e", "n", "A", "A", "A", "-", "a", "a", "a", "a", "a", "a", "a", "a">>

\* Shorter than 50 characters
URL_SHORT ==
    <<"h", "t", "t", "p", "s", ":", "/", "/", "d", "i", "s", "c", "o", "r", "d", ".", "c", "o", "m", "/", "a", "p", "i", "/", "w", "e", "b", "h", "o", "o", "k", "s", "/", "1", "/", "t">>

\* A URL with an approved prefix that is exactly total long
url_of_length(total) == DISCORD_PREFIX \o repeat("7", total - Len(DISCORD_PREFIX))

\* The string with a blank before it and a line end after it
padded(s) == <<" ">> \o s \o <<"\n">>

NOW ==
    <<"2", "0", "2", "6", "-", "0", "1", "-", "0", "1", "T", "1", "2", ":", "0", "0", ":", "0", "0", ".", "0", "0", "0", "0", "0", "1">>

ListArgs == {[response_format |-> f] : f \in ResponseFormats}

AddArgs(names, urls, descriptions) ==
    {[name |-> n, url |-> u, description |-> d] :
        n \in names, u \in urls, d \in descriptions}

RemoveArgs(names) == {[name |-> n] : n \in names}

MessageArgs(names, contents, formats) ==
    {[webhook_name |-> n, content |-> c, username |-> None, avatar_url |-> None,
      response_format |-> f] : n \in names, c \in contents, f \in formats}

Announcement(name, changes, use_embed, format) ==
    [webhook_name |-> name, version |-> <<"v", "1", ".", "0">>, headline |-> <<"B", "i", "g", " ", "n", "e", "w", "s">>,
     changes |-> changes, download_url |-> None, style |-> "release",
     beta_warning |-> FALSE, use_embed |-> use_embed, embed_color |-> None,
     thumbnail_url |-> None, footer_text |-> None, username |-> None,
     response_format |-> format]

\* A rich announcement of the style and with the custom colour
Coloured(style, embed_color) ==
    [Announcement(<<"r", "e", "l">>, <<<<"F", "i", "x", "e", "d", " ", "b", "u", "g">>>>, TRUE, "markdown")
        EXCEPT !.style = style, !.embed_color = embed_color]

AnnouncementArgs(names, changes, embeds, formats) ==
    {Announcement(n, c, e, f) : n \in names, c \in changes, e \in embeds, f \in formats}

\* A change that makes the plain text of Announcement exactly total long
change_of_length(total) ==
    repeat("x", total - Len(announcement_text(
                                SendAnnouncementInput(
                                    Announcement(<<"r", "e", "l">>, <<<<"x">>>>, FALSE, "markdown")).v))
                     + 1)

\* Bodies Discord answers with: the text, and what response.json() makes of it
BODY_EMPTY == [text |-> <<>>, json |-> JSONDecodeError]

BODY_UNKNOWN_WEBHOOK ==
    [text |-> <<"{", "\"", "m", "e", "s", "s", "a", "g", "e", "\"", ":", " ", "\"", "U", "n", "k", "n", "o", "w", "n", " ", "W", "e", "b", "h", "o", "o", "k", "\"", ",", " ", "\"", "c", "o", "d", "e", "\"", ":", " ", "1", "0", "0", "1", "5", "}">>,
     json |-> Value(Obj(<<Item(<<"m", "e", "s", "s", "a", "g", "e">>, Str(<<"U", "n", "k", "n", "o", "w", "n", " ", "W", "e", "b", "h", "o", "o", "k">>)),
                          Item(<<"c", "o", "d", "e">>, Num(10015))>>))]

BODY_RATE_LIMITED ==
    [text |-> <<"{", "\"", "m", "e", "s", "s", "a", "g", "e", "\"", ":", " ", "\"", "Y", "o", "u", " ", "a", "r", "e", " ", "b", "e", "i", "n", "g", " ", "r", "a", "t", "e", " ", "l", "i", "m", "i", "t", "e", "d", ".", "\"", ",", " ", "\"", "r", "e", "t", "r", "y", "_", "a", "f", "t", "e", "r", "\"", ":", " ", "1", "}">>,
     json |-> Value(Obj(<<Item(<<"m", "e", "s", "s", "a", "g", "e">>, Str(<<"Y", "o", "u", " ", "a", "r", "e", " ", "b", "e", "i", "n", "g", " ", "r", "a", "t", "e", " ", "l", "i", "m", "i", "t", "e", "d", ".">>)),
                          Item(<<"r", "e", "t", "r", "y", "_", "a", "f", "t", "e", "r">>, Num(1))>>))]

BODY_HTML == [text |-> <<"<", "h", "t", "m", "l", ">", "B", "a", "d", " ", "G", "a", "t", "e", "w", "a", "y", "<", "/", "h", "t", "m", "l", ">">>, json |-> JSONDecodeError]

BODY_LIST == [text |-> <<"[", "\"", "b", "a", "d", "\"", "]">>, json |-> Value(Arr(<<Str(<<"b", "a", "d">>)>>))]

BODY_MESSAGE_OBJECT ==
    [text |-> <<"{", "\"", "i", "d", "\"", ":", " ", "\"", "1", "\"", "}">>, json |-> Value(Obj(<<Item(<<"i", "d">>, Str(<<"1">>))>>))]

Responses(statuses, bodies) ==
    {Response(s, b.text, b.json) : s \in statuses, b \in bodies}

TransportErrors ==
    {TransportError("ReadTimeout", <<"T", "h", "e", " ", "r", "e", "a", "d", " ", "o", "p", "e", "r", "a", "t", "i", "o", "n", " ", "t", "i", "m", "e", "d", " ", "o", "u", "t">>),
     TransportError("ConnectTimeout", <<>>),
     TransportError("ConnectError", <<"A", "l", "l", " ", "c", "o", "n", "n", "e", "c", "t", "i", "o", "n", " ", "a", "t", "t", "e", "m", "p", "t", "s", " ", "f", "a", "i", "l", "e", "d">>),
     TransportError("ReadError", <<>>)}

\* ------------------------------------------------------------------------
\* Specifications
\* ------------------------------------------------------------------------

\* The inputs of Spec: the send tools against one webhook and against a
\* name that has none, with every way client.post may come back
Typical ==
    [add_args |-> AddArgs({<<"r", "e", "l">>, <<"a", "-", "b">>}, {URL_A}, {None}),
     remove_args |-> RemoveArgs({<<"r", "e", "l">>}),
     list_args |-> ListArgs,
     message_args |-> MessageArgs({<<"r", "e", "l">>}, {<<"h", "i">>}, ResponseFormats)
                      \cup MessageArgs({<<"n", "o", "p", "e">>}, {<<"h", "i">>}, {"markdown"})
                      \cup MessageArgs({<<"r", "e", "l">>}, {<<>>}, {"markdown"}),
     announcement_args |->
         AnnouncementArgs({<<"r", "e", "l">>}, {<<<<"F", "i", "x", "e", "d", " ", "b", "u", "g">>, <<"-", ">", " ", "A", "d", "d", "e", "d", " ", "f", "e", "a", "t", "u", "r", "e">>>>},
                          {FALSE, TRUE}, {"markdown"})
         \cup AnnouncementArgs({<<"n", "o", "p", "e">>}, {<<<<"F", "i", "x", "e", "d", " ", "b", "u", "g">>>>}, {FALSE}, {"markdown"}),
     responses |-> {Response(204, BODY_EMPTY.text, BODY_EMPTY.json),
                    Response(429, BODY_RATE_LIMITED.text, BODY_RATE_LIMITED.json),
                    TransportError("ReadTimeout", <<"T", "h", "e", " ", "r", "e", "a", "d", " ", "o", "p", "e", "r", "a", "t", "i", "o", "n", " ", "t", "i", "m", "e", "d", " ", "o", "u", "t">>),
                    TransportError("ConnectError", <<"A", "l", "l", " ", "c", "o", "n", "n", "e", "c", "t", "i", "o", "n", " ", "a", "t", "t", "e", "m", "p", "t", "s", " ", "f", "a", "i", "l", "e", "d">>)},
     clock |-> {NOW}]

NextTypical == Next(Typical)

Spec == Init /\ [][NextTypical]_vars

\* The inputs of SpecRegistry: names with capitals, a space and a letter
\* outside ASCII, a name that validation rejects, and a description that
\* repeats the URL
Names ==
    [add_args |-> AddArgs({<<"M", "y", " ", "H", "o", "o", "k">>, <<"C", "a", "f", "U+00E9">>, <<"a", "-", "b">>}, {URL_A}, {None})
                  \cup AddArgs({<<"r", "e", "l">>}, {URL_B}, {Str(URL_B)}),
     remove_args |-> RemoveArgs({<<"r", "e", "l">>, <<"M", "y", " ", "H", "o", "o", "k">>}),
     list_args |-> ListArgs,
     message_args |-> MessageArgs({<<"M", "y", " ", "H", "o", "o", "k">>}, {<<"h", "i">>}, {"markdown"}),
     announcement_args |->
         AnnouncementArgs({<<"r", "e", "l">>}, {<<<<"F", "i", "x", "e", "d", " ", "b", "u", "g">>>>}, {TRUE}, {"markdown"}),
     responses |-> {Response(204, BODY_EMPTY.text, BODY_EMPTY.json)},
     clock |-> {NOW}]

NextNames == Next(Names)

SpecRegistry == Init /\ [][NextNames]_vars

\* The inputs of SpecLength: plain-text announcements at the length limit
\* and a character over it
Lengths ==
    [add_args |-> AddArgs({<<"r", "e", "l">>}, {URL_A}, {None}),
     remove_args |-> RemoveArgs({<<"r", "e", "l">>}),
     list_args |-> {[response_format |-> "markdown"]},
     message_args |-> MessageArgs({<<"r", "e", "l">>}, {<<"h", "i">>}, {"markdown"}),
     announcement_args |->
         AnnouncementArgs({<<"r", "e", "l">>},
                          {<<change_of_length(DISCORD_MESSAGE_LIMIT)>>,
                           <<change_of_length(DISCORD_MESSAGE_LIMIT + 1)>>},
                          {FALSE}, {"markdown"})
         \cup AnnouncementArgs({<<"r", "e", "l">>}, {<<change_of_length(DISCORD_MESSAGE_LIMIT + 1)>>},
                               {TRUE}, {"markdown"}),
     responses |-> {Response(204, BODY_EMPTY.text, BODY_EMPTY.json),
                    Response(400, BODY_EMPTY.text, BODY_EMPTY.json)},
     clock |-> {NOW}]

NextLengths == Next(Lengths)

SpecLength == Init /\ [][NextLengths]_vars

\* The inputs of SpecEnv: every tool once, and the files that something
\* other than the server may leave at WEBHOOKS_FILE
Files ==
    [add_args |-> AddArgs({<<"r", "e", "l">>}, {URL_A}, {None}),
     remove_args |-> RemoveArgs({<<"r", "e", "l">>}),
     list_args |-> ListArgs,
     message_args |-> MessageArgs({<<"r", "e", "l">>}, {<<"h", "i">>}, {"markdown"}),
     announcement_args |->
         AnnouncementArgs({<<"r", "e", "l">>}, {<<<<"F", "i", "x", "e", "d", " ", "b", "u", "g">>>>}, {FALSE}, {"markdown"}),
     responses |-> {Response(204, BODY_EMPTY.text, BODY_EMPTY.json)},
     clock |-> {NOW},
     files |-> {MissingFile,
                FileOf("noaccess", None),
                FileOf("undecodable", None),
                FileOf("malformed", None),
                JsonFile(Arr(<<Num(1)>>)),
                JsonFile(Obj(<<Item(<<"r", "e", "l">>, Str(URL_A))>>))}]

NextFiles == Next(Files) \/ file_replaced(Files)

SpecEnv == Init /\ [][NextFiles]_vars

\* The inputs of SpecRace: writers of two names, and a send
Writers ==
    [add_args |-> AddArgs({<<"r", "e", "l">>, <<"h", "o", "o", "k">>}, {URL_A}, {None}),
     remove_args |-> RemoveArgs({<<"r", "e", "l">>}),
     list_args |-> {[response_format |-> "markdown"]},
     message_args |-> MessageArgs({<<"r", "e", "l">>}, {<<"h", "i">>}, {"markdown"}),
     announcement_args |-> {},
     responses |-> {Response(204, BODY_EMPTY.text, BODY_EMPTY.json)},
     clock |-> {NOW}]

NextWriters == NextConcurrent(Writers)

SpecRace == Init /\ [][NextWriters]_vars

\* The inputs of SpecUrls: URLs at both ends of the length bounds and one
\* character beyond them, with the wrong scheme, and with blanks around them
Urls ==
    [add_args |-> AddArgs({<<"r", "e", "l">>},
                          {URL_HTTP, padded(URL_B),
                           url_of_length(URL_MIN_LENGTH - 1), url_of_length(URL_MIN_LENGTH),
                           padded(url_of_length(URL_MIN_LENGTH - 1)),
                           url_of_length(URL_MAX_LENGTH), url_of_length(URL_MAX_LENGTH + 1)},
                          {None}),
     remove_args |-> RemoveArgs({<<"r", "e", "l">>}),
     list_args |-> {[response_format |-> "markdown"]},
     message_args |-> MessageArgs({<<"r", "e", "l">>}, {<<"h", "i">>}, {"markdown"}),
     announcement_args |->
         AnnouncementArgs({<<"r", "e", "l">>}, {<<<<"F", "i", "x", "e", "d", " ", "b", "u", "g">>>>}, {TRUE}, {"markdown"}),
     responses |-> {Response(204, BODY_EMPTY.text, BODY_EMPTY.json)},
     clock |-> {NOW}]

NextUrls == Next(Urls)

SpecUrls == Init /\ [][NextUrls]_vars

\* The inputs of SpecDispatch: responses of every branch of
\* _send_webhook_message, with bodies that are empty, a JSON object with and
\* without "message", a JSON list, and no JSON at all
Dispatches ==
    [add_args |-> AddArgs({<<"r", "e", "l">>}, {URL_A}, {None}),
     remove_args |-> RemoveArgs({<<"r", "e", "l">>}),
     list_args |-> {[response_format |-> "markdown"]},
     message_args |-> MessageArgs({<<"r", "e", "l">>}, {<<"h", "i">>}, {"markdown"}),
     announcement_args |->
         AnnouncementArgs({<<"r", "e", "l">>}, {<<<<"F", "i", "x", "e", "d", " ", "b", "u", "g">>>>}, {TRUE}, {"markdown"}),
     responses |-> Responses({STATUS_NO_CONTENT, STATUS_OK, 404, 502},
                             {BODY_EMPTY, BODY_UNKNOWN_WEBHOOK, BODY_MESSAGE_OBJECT,
                              BODY_LIST, BODY_HTML}),
     clock |-> {NOW}]

NextDispatches == Next(Dispatches)

SpecDispatch == Init /\ [][NextDispatches]_vars

\* The inputs of SpecChanges: plain-text announcements whose changes begin
\* with nothing, with "->" and with the arrow, and hold "->" further on
Changes ==
    [add_args |-> AddArgs({<<"r", "e", "l">>}, {URL_A}, {None}),
     remove_args |-> RemoveArgs({<<"r", "e", "l">>}),
     list_args |-> {[response_format |-> "markdown"]},
     message_args |-> MessageArgs({<<"r", "e", "l">>}, {<<"h", "i">>}, {"markdown"}),
     announcement_args |->
         AnnouncementArgs({<<"r", "e", "l">>},
                          {<<<<"F", "i", "x", "e", "d", " ", "b", "u", "g">>, <<"-", ">", " ", "A", "d", "d", "e", "d", " ", "f", "e", "a", "t", "u", "r", "e">>, <<"U+2192", " ", "K", "e", "p", "t">>>>,
                           <<<<"-", ">", " ", "R", "e", "n", "a", "m", "e", "d", " ", "g", "e", "t", "-", ">", "f", "e", "t", "c", "h">>>>,
                           <<<<"U+2192", " ", "M", "o", "v", "e", "d", " ", "a", " ", "-", ">", " ", "b">>>>,
                           <<<<"M", "a", "p", "s", " ", "a", "-", ">", "b">>>>},
                          {FALSE}, {"markdown", "json"}),
     responses |-> {Response(204, BODY_EMPTY.text, BODY_EMPTY.json),
                    Response(404, BODY_UNKNOWN_WEBHOOK.text, BODY_UNKNOWN_WEBHOOK.json)},
     clock |-> {NOW}]

NextChanges == Next(Changes)

SpecChanges == Init /\ [][NextChanges]_vars

\* The inputs of SpecColour: rich announcements of every style, with no
\* custom colour, with hex colours with and without "#", and with colours
\* that are not hex
Colours ==
    [add_args |-> AddArgs({<<"r", "e", "l">>}, {URL_A}, {None}),
     remove_args |-> RemoveArgs({<<"r", "e", "l">>}),
     list_args |-> {[response_format |-> "markdown"]},
     message_args |-> MessageArgs({<<"r", "e", "l">>}, {<<"h", "i">>}, {"markdown"}),
     announcement_args |->
         {Coloured(style, None) : style \in AnnouncementStyles}
         \cup {Coloured("release", Str(<<"#", "5", "8", "6", "5", "F", "2">>)), Coloured("beta", Str(<<"f", "f", "0", "0", "0", "0">>)),
               Coloured("hotfix", Str(<<"n", "o", "t", "-", "h", "e", "x">>)), Coloured("custom", Str(<<"#">>)),
               Coloured("beta", Str(<<>>))},
     responses |-> {Response(204, BODY_EMPTY.text, BODY_EMPTY.json)},
     clock |-> {NOW}]

NextColours == Next(Colours)

SpecColour == Init /\ [][NextColours]_vars

\* The inputs of SpecPayload: messages that are empty, blank, at the length
\* limit and a character over it, and announcements as text at the limit and
\* over it, and as a rich card
Payloads ==
    [add_args |-> AddArgs({<<"r", "e", "l">>}, {URL_A}, {None}),
     remove_args |-> RemoveArgs({<<"r", "e", "l">>}),
     list_args |-> {[response_format |-> "markdown"]},
     message_args |-> MessageArgs({<<"r", "e", "l">>},
                                  {<<"h", "i">>, <<>>, <<" ", "\n">>,
                                   repeat("x", DISCORD_MESSAGE_LIMIT),
                                   repeat("x", DISCORD_MESSAGE_LIMIT + 1)},
                                  {"markdown"}),
     announcement_args |->
         AnnouncementArgs({<<"r", "e", "l">>},
                          {<<change_of_length(DISCORD_MESSAGE_LIMIT)>>,
                           <<change_of_length(DISCORD_MESSAGE_LIMIT + 1)>>},
                          {FALSE}, {"markdown"})
         \cup AnnouncementArgs({<<"r", "e", "l">>}, {<<<<"F", "i", "x", "e", "d", " ", "b", "u", "g">>>>}, {TRUE}, {"markdown"}),
     responses |-> {Response(204, BODY_EMPTY.text, BODY_EMPTY.json)},
     clock |-> {NOW}]

NextPayloads == Next(Payloads)

SpecPayload == Init /\ [][NextPayloads]_vars

\* ------------------------------------------------------------------------
\* Properties
\* ------------------------------------------------------------------------

SendTools == {"discord_send_message", "discord_send_announcement"}

\* In this step the tool function of the call in slot i is called, and runs
\* to its first await or to its return
starts(i) ==
    /\ inv[i].pc \in {"idle", "done", "pending"}
    /\ inv'[i].pc \in {"posting", "done"}
    /\ inv'[i] # inv[i]

\* The tool function of slot has returned a string that does not report an error
succeeded(slot) ==
    /\ slot.pc = "done"
    /\ slot.ret.how = "returned"
    /\ ~startswith(slot.ret.text, <<"E", "r", "r", "o", "r">>)

\* The tool function of slot has ended without a POST
ended_unposted(slot) ==
    /\ slot.pc = "done"
    /\ slot.posts = 0
    /\ slot.post = NoPost
    /\ slot.ret.how = "returned"

\* The registry that is in the file f
registry(f) == _load_webhooks(f).v

\* The keys of the registry d
names_of(d) == {d.items[k].k : k \in 1..Len(d.items)}

\* client.post has not come back with a 200 or a 204
failed(response) ==
    response.exc # "" \/ response.status \notin {STATUS_OK, STATUS_NO_CONTENT}

\* The string reports an error: in words, or as a result with success false
reports_error(text) ==
    startswith(text, <<"E", "r", "r", "o", "r", ":", " ">>) \/ contains(text, <<"\"", "s", "u", "c", "c", "e", "s", "s", "\"", ":", " ", "f", "a", "l", "s", "e">>)

\* C1: whenever the POST of a send on a configured webhook is answered with a
\* status other than 200 and 204, the string the call returns (in markdown
\* format) is the message of the status-code table for that status (429 "Rate
\* limited", 404 "Webhook not found", 400, 401 and 403 their own, any other
\* "status N").
StatusTableReported ==
    \A i \in Invocations :
        (/\ inv[i].pc = "done"
         /\ inv[i].req.tool \in SendTools
         /\ inv[i].req.args.response_format = "markdown"
         /\ inv[i].posts = 1
         /\ inv[i].resp.exc = ""
         /\ inv[i].resp.status \notin {STATUS_OK, STATUS_NO_CONTENT})
            => inv[i].ret = Returned(status_message(inv[i].resp.status))

\* C2: after add-webhook(N, U) has succeeded, a lookup of the same name N, as
\* send-message does it, returns U.
AddThenLookup ==
    [][\A i \in Invocations :
          (/\ starts(i)
           /\ inv'[i].req.tool = "discord_add_webhook"
           /\ succeeded(inv'[i]))
              => _get_webhook_url(file', strip(inv'[i].req.args.name))
                     = Value(Str(strip(inv'[i].req.args.url)))]_vars

\* C3: every call of a tool ends by returning a string, whatever its input,
\* the registry file and the outcome of the POST: none ends in an exception.
EveryCallReturnsAString ==
    \A i \in Invocations : inv[i].pc = "done" => inv[i].ret.how = "returned"

\* C4: when send-announcement is called with use_embed false on a configured
\* webhook and the formatted plain text is longer than 2000 characters, the
\* call returns the length error and issues no POST.
LongAnnouncementNotPosted ==
    [][\A i \in Invocations :
          (/\ starts(i)
           /\ inv'[i].req.tool = "discord_send_announcement"
           /\ SendAnnouncementInput(inv'[i].req.args).exc = ""
           /\ ~inv'[i].req.args.use_embed
           /\ truthy(_get_webhook_url(file, strip(inv'[i].req.args.webhook_name)).v)
           /\ Len(announcement_text(SendAnnouncementInput(inv'[i].req.args).v))
                  > DISCORD_MESSAGE_LIMIT)
              => /\ ended_unposted(inv'[i])
                 /\ startswith(inv'[i].ret.text, <<"E", "r", "r", "o", "r", ":", " ", "A", "n", "n", "o", "u", "n", "c", "e", "m", "e", "n", "t", " ", "i", "s", " ", "t", "o", "o", " ", "l", "o", "n", "g">>)]_vars

\* A call with use_embed false and a text of 2001 characters has returned
\* the length error without a POST
LongAnnouncementRejected ==
    \E i \in Invocations :
        /\ inv[i].req.tool = "discord_send_announcement"
        /\ ended_unposted(inv[i])
        /\ ~inv[i].req.args.use_embed
        /\ Len(announcement_text(SendAnnouncementInput(inv[i].req.args).v))
               = DISCORD_MESSAGE_LIMIT + 1
        /\ startswith(inv[i].ret.text, <<"E", "r", "r", "o", "r", ":", " ", "A", "n", "n", "o", "u", "n", "c", "e", "m", "e", "n", "t", " ", "i", "s", " ", "t", "o", "o", " ", "l", "o", "n", "g", " ", "(", "2", "0", "0", "1", " ", "c", "h", "a", "r", "s", ")">>)

\* The URLs stored in the registry d
stored_urls(d) == {item_of(d.items[k].v, <<"u", "r", "l">>).s : k \in 1..Len(d.items)}

\* The parts of url that are one character longer than the hint may show
long_parts(url) ==
    {SubSeq(url, p, p + URL_HINT_LENGTH) : p \in 1..(Len(url) - URL_HINT_LENGTH)}

\* The number of places of text where part occurs
count(text, part) == Cardinality(occurrences(text, part))

\* The number of places where part occurs in what list-webhooks shows of the
\* entries of d from the k-th on: the name, the description and the time of
\* each, and "..." with the last 8 characters of its URL
RECURSIVE shown(_, _, _)
shown(d, k, part) ==
    IF k > Len(d.items) THEN 0
    ELSE count(d.items[k].k, part)
         + count(str(item_of(d.items[k].v, <<"d", "e", "s", "c", "r", "i", "p", "t", "i", "o", "n">>)), part)
         + count(str(item_of(d.items[k].v, <<"a", "d", "d", "e", "d", "_", "a", "t">>)), part)
         + count(<<".", ".", ".">> \o tail(item_of(d.items[k].v, <<"u", "r", "l">>).s, URL_HINT_LENGTH), part)
         + shown(d, k + 1, part)

\* The slot holds what list-webhooks returned in JSON for the registry of file
listed_as_json(slot) ==
    /\ slot.pc = "done"
    /\ slot.req.tool = "discord_list_webhooks"
    /\ slot.req.args.response_format = "json"
    /\ slot.ret.how = "returned"
    /\ truthy(registry(file))

AtMostOnePost ==
    [][\A i \in Invocations :
          /\ inv'[i].posts <= 1
          /\ (inv[i].pc = "posting" /\ inv'[i] # inv[i])
                => /\ inv'[i].pc = "done"
                   /\ inv'[i].posts = 1
                   /\ inv'[i].post = inv[i].post
                   /\ inv'[i].ret.how = "returned"
                   /\ failed(inv'[i].resp) => reports_error(inv'[i].ret.text)]_vars

\* A send has ended after one POST that came back with an error status, one
\* after a POST that timed out and one after a POST that could not connect
FailedPostsReported ==
    /\ \E i \in Invocations :
           /\ inv[i].pc = "done" /\ inv[i].posts = 1
           /\ inv[i].resp.exc = "" /\ inv[i].resp.status = 429
           /\ reports_error(inv[i].ret.text)
    /\ \E i \in Invocations :
           /\ inv[i].pc = "done" /\ inv[i].posts = 1
           /\ inv[i].resp.exc \in {"ReadTimeout", "ConnectError"}
           /\ reports_error(inv[i].ret.text)

\* C7: when a send is called with a webhook name that has no entry in the
\* registry, it issues no POST and returns a not-found error that lists the
\* names configured, or says "No webhooks configured" when there are none.
UnknownWebhookNotPosted ==
    [][\A i \in Invocations :
          (/\ starts(i)
           /\ inv'[i].req.tool \in SendTools
           /\ inv'[i].ret.how # "raised"
           /\ lower(strip(inv'[i].req.args.webhook_name)) \notin names_of(registry(file)))
              => /\ ended_unposted(inv'[i])
                 /\ startswith(inv'[i].ret.text,
                               <<"E", "r", "r", "o", "r", ":", " ", "W", "e", "b", "h", "o", "o", "k", " ", "'">> \o strip(inv'[i].req.args.webhook_name)
                               \o <<"'", " ", "n", "o", "t", " ", "f", "o", "u", "n", "d", ".", " ">>)
                 /\ IF names_of(registry(file)) = {}
                    THEN contains(inv'[i].ret.text, <<"N", "o", " ", "w", "e", "b", "h", "o", "o", "k", "s", " ", "c", "o", "n", "f", "i", "g", "u", "r", "e", "d">>)
                    ELSE /\ contains(inv'[i].ret.text, <<"A", "v", "a", "i", "l", "a", "b", "l", "e", " ", "w", "e", "b", "h", "o", "o", "k", "s", ":", " ">>)
                         /\ \A name \in names_of(registry(file)) :
                                contains(inv'[i].ret.text, name)]_vars

\* A send to a name that has no entry has returned the error that lists the
\* one webhook configured, and has issued no POST
UnknownWebhookReported ==
    \E i \in Invocations :
        /\ inv[i].req.tool \in SendTools
        /\ ended_unposted(inv[i])
        /\ strip(inv[i].req.args.webhook_name) = <<"n", "o", "p", "e">>
        /\ names_of(registry(file)) = {<<"r", "e", "l">>}
        /\ startswith(inv[i].ret.text,
                      <<"E", "r", "r", "o", "r", ":", " ", "W", "e", "b", "h", "o", "o", "k", " ", "'", "n", "o", "p", "e", "'", " ", "n", "o", "t", " ", "f", "o", "u", "n", "d", ".", " ", "A", "v", "a", "i", "l", "a", "b", "l", "e", " ", "w", "e", "b", "h", "o", "o", "k", "s", ":", " ", "r", "e", "l">>)

\* The slot holds an add-webhook or a remove-webhook that has reported success
wrote(slot) ==
    /\ slot.req.tool \in {"discord_add_webhook", "discord_remove_webhook"}
    /\ succeeded(slot)

\* The key that the writer req writes
written_key(req) ==
    IF req.tool = "discord_add_webhook" THEN sanitize(strip(req.args.name))
    ELSE lower(strip(req.args.name))

\* The registry d holds what the writer req wrote
reflects(d, req) ==
    IF req.tool = "discord_add_webhook"
    THEN /\ written_key(req) \in names_of(d)
         /\ item_of(item_of(d, written_key(req)), <<"u", "r", "l">>) = Str(strip(req.args.url))
    ELSE written_key(req) \notin names_of(d)

\* Slots i and j hold writers of different keys that were outstanding
\* together and have both reported success
wrote_together(i, j) ==
    /\ i # j
    /\ wrote(inv[i])
    /\ wrote(inv[j])
    /\ written_key(inv[i].req) # written_key(inv[j].req)

corrupt(f) ==
    \/ f.kind # "json"
    \/ f.doc.t # "obj"
    \/ \E k \in 1..Len(f.doc.items) : f.doc.items[k].v.t # "obj"

\* C9: when the registry file is missing, unreadable or malformed, a call of
\* list-webhooks or of a send reports that no webhooks are configured, as it
\* does on an empty registry, and no error of the file reaches the caller.
CorruptRegistryReadsAsEmpty ==
    [][\A i \in Invocations :
          (/\ starts(i)
           /\ corrupt(file)
           /\ inv'[i].req.tool \in SendTools \cup {"discord_list_webhooks"}
           /\ inv'[i].ret.how # "raised")
              => /\ ended_unposted(inv'[i])
                 /\ contains(inv'[i].ret.text, <<"N", "o", " ", "w", "e", "b", "h", "o", "o", "k", "s", " ", "c", "o", "n", "f", "i", "g", "u", "r", "e", "d">>)]_vars

\* The characters of a normalised key
KeyCharacters == Range(ascii_lowercase) \cup Range(digits) \cup {"_"}

\* C10: every key of the registry consists of characters of [a-z0-9_] only.
KeysNormalised ==
    \A name \in names_of(registry(file)) :
        \A k \in 1..Len(name) : name[k] \in KeyCharacters

\* The name passes the checks of AddWebhookInput
name_valid(name) ==
    try(str_field(name, NAME_MIN_LENGTH, NAME_MAX_LENGTH),
        LAMBDA stripped : validate_name(stripped)).exc = ""

\* The URL begins with one of the two approved prefixes and is 50 to 300 long
url_approved(url) ==
    /\ \/ startswith(url, <<"h", "t", "t", "p", "s", ":", "/", "/", "d", "i", "s", "c", "o", "r", "d", ".", "c", "o", "m", "/", "a", "p", "i", "/", "w", "e", "b", "h", "o", "o", "k", "s", "/">>)
       \/ startswith(url, <<"h", "t", "t", "p", "s", ":", "/", "/", "d", "i", "s", "c", "o", "r", "d", "a", "p", "p", ".", "c", "o", "m", "/", "a", "p", "i", "/", "w", "e", "b", "h", "o", "o", "k", "s", "/">>)
    /\ Len(url) >= 50
    /\ Len(url) <= 300

\* In this step the add-webhook in slot i runs: it writes its entry and
\* reports success if accepted holds, and else is rejected with an error that
\* says why, and leaves the file as it was
add_writes_iff(i, accepted) ==
    (starts(i) /\ inv'[i].req.tool = "discord_add_webhook")
        => IF accepted
           THEN /\ succeeded(inv'[i])
                /\ reflects(registry(file'), inv'[i].req)
           ELSE /\ inv'[i].pc = "done"
                /\ ~succeeded(inv'[i])
                /\ inv'[i].ret.text # <<>>
                /\ file' = file

\* C11, as the specification states it: add-webhook writes its entry if and
\* only if the URL it is given begins with an approved prefix and is 50 to
\* 300 characters long (and the name is valid); every other call is rejected
\* and leaves the registry as it was.
AddWritesUrlsAsGiven ==
    [][\A i \in Invocations :
          add_writes_iff(i, /\ url_approved(inv'[i].req.args.url)
                            /\ name_valid(inv'[i].req.args.name))]_vars

\* C11, as the code has it: the URL is judged once the blanks around it are
\* taken off: add-webhook writes its entry if and only if the stripped URL
\* begins with an approved prefix and is 50 to 300 characters long (and the
\* name is valid); every other call is rejected with an error that says why
\* and leaves the registry as it was.
AddWritesApprovedUrlsOnly ==
    [][\A i \in Invocations :
          add_writes_iff(i, /\ url_approved(strip(inv'[i].req.args.url))
                            /\ name_valid(inv'[i].req.args.name))]_vars

\* An add-webhook with an http:// URL has been rejected while the registry
\* holds the entry that an add-webhook with a URL of 300 characters wrote
WrongSchemeRejected ==
    /\ \E i \in Invocations :
           /\ inv[i].pc = "done"
           /\ inv[i].req.tool = "discord_add_webhook"
           /\ inv[i].req.args.url = URL_HTTP
           /\ inv[i].ret.how = "raised"
           /\ contains(inv[i].ret.text, <<"I", "n", "v", "a", "l", "i", "d", " ", "D", "i", "s", "c", "o", "r", "d", " ", "w", "e", "b", "h", "o", "o", "k", " ", "U", "R", "L">>)
    /\ names_of(registry(file)) = {<<"r", "e", "l">>}
    /\ item_of(item_of(registry(file), <<"r", "e", "l">>), <<"u", "r", "l">>) = Str(url_of_length(300))

\* The error string the status table gives a response that is an error: the
\* "message" of the body where the body is JSON that has one, else the body
stated_error(response) ==
    IF /\ response.json.exc = ""
       /\ response.json.v.t = "obj"
       /\ has_key(response.json.v, <<"m", "e", "s", "s", "a", "g", "e">>)
    THEN item_of(response.json.v, <<"m", "e", "s", "s", "a", "g", "e">>)
    ELSE Str(response.text)

\* result is the record the status table gives response
is_record_of(response, result) ==
    /\ result.exc = ""
    /\ result.v.t = "obj"
    /\ get(result.v, <<"s", "t", "a", "t", "u", "s", "_", "c", "o", "d", "e">>) = Value(Num(response.status))
    /\ get(result.v, <<"s", "u", "c", "c", "e", "s", "s">>)
           = Value(Bool(response.status \in {STATUS_NO_CONTENT, STATUS_OK}))
    /\ (response.status = STATUS_OK /\ response.text # <<>>)
           => /\ response.json.exc = ""
              /\ get(result.v, <<"r", "e", "s", "p", "o", "n", "s", "e">>) = response.json
    /\ response.status \notin {STATUS_NO_CONTENT, STATUS_OK}
           => get(result.v, <<"e", "r", "r", "o", "r">>) = Value(stated_error(response))

\* C12: whatever response client.post has come back with, the client
\* returns a record rather than failing: success for 204, success with the
\* parsed body for 200, and for every other status a failure with the status
\* code and the body's "message", or the body's text where it is not JSON.
EveryResponseGivesARecord ==
    \A i \in Invocations :
        (inv[i].pc = "done" /\ inv[i].posts > 0 /\ inv[i].resp.exc = "")
            => is_record_of(inv[i].resp, dispatch_result(inv[i].resp))

\* s.split("\n")
RECURSIVE lines_of(_)
lines_of(s) ==
    IF ~contains(s, <<"\n">>) THEN <<s>>
    ELSE <<SubSeq(s, 1, find(s, <<"\n">>) - 1)>>
         \o lines_of(SubSeq(s, find(s, <<"\n">>) + 1, Len(s)))

\* The line the plain-text builder is said to make of a change
stated_line(change) ==
    IF startswith(change, ARROW) THEN change
    ELSE IF startswith(change, <<"-", ">">>) THEN ARROW \o SubSeq(change, 3, Len(change))
    ELSE ARROW \o <<" ">> \o change

\* After the four lines of the heading, lines holds one line for each of the
\* changes, and nothing more
change_lines_as_stated(changes, lines) ==
    /\ Len(lines) = 4 + Len(changes)
    /\ \A k \in 1..Len(changes) : lines[4 + k] = stated_line(changes[k])

\* The invocation in slot has posted a plain-text announcement
posted_text(slot) ==
    /\ slot.req.tool = "discord_send_announcement"
    /\ ~slot.req.args.use_embed
    /\ slot.post.payload.t = "obj"

\* C13: in the text a plain-text announcement posts, each change makes
\* exactly one line: the arrow, a space and the change where the change
\* begins with neither the arrow nor "->"; the change with its leading "->"
\* replaced by the arrow, and the rest as it was, where it begins with "->";
\* and the change as it was where it begins with the arrow.
ChangeLinesAsStated ==
    \A i \in Invocations :
        (posted_text(inv[i]) /\ ~truthy(inv[i].req.args.download_url)
                             /\ ~inv[i].req.args.beta_warning)
            => change_lines_as_stated(SendAnnouncementInput(inv[i].req.args).v.changes,
                                      lines_of(item_of(inv[i].post.payload, <<"c", "o", "n", "t", "e", "n", "t">>).s))

\* The colour each style is said to have
stated_default(style) ==
    CASE style = "release" -> hex_value(<<"5", "7", "F", "2", "8", "7">>)
      [] style = "hotfix" -> hex_value(<<"E", "D", "4", "2", "4", "5">>)
      [] style = "beta" -> hex_value(<<"F", "E", "E", "7", "5", "C">>)
      [] style = "custom" -> hex_value(<<"5", "8", "6", "5", "F", "2">>)

\* The colour without the "#" before it
unhashed(colour) == IF startswith(colour, <<"#">>) THEN Tail(colour) ELSE colour

\* The colour is hex digits, and nothing else
plain_hex(colour) ==
    /\ colour # <<>>
    /\ \A k \in 1..Len(colour) : lower_char(colour[k]) \in Range(hexdigits)

\* The colour a rich card is said to have
stated_colour(style, embed_color) ==
    IF embed_color.t = "str" /\ plain_hex(unhashed(embed_color.s))
    THEN hex_value(unhashed(embed_color.s))
    ELSE stated_default(style)

\* The invocation in slot has posted a rich card
posted_embed(slot) ==
    /\ slot.req.tool = "discord_send_announcement"
    /\ slot.req.args.use_embed
    /\ slot.post.payload.t = "obj"

\* The first of the embeds slot has posted
embed_of(slot) == item_of(slot.post.payload, <<"e", "m", "b", "e", "d", "s">>).xs[1]

\* C14: the colour of a posted rich card is the fixed colour of its style
\* where no custom colour is given, the hex value of the custom colour, with
\* or without a "#" before it, where that is hex, and the colour of the style
\* again where the custom colour is not hex: a bad colour fails no call.
EmbedColourAsStated ==
    \A i \in Invocations :
        /\ posted_embed(inv[i])
               => item_of(embed_of(inv[i]), <<"c", "o", "l", "o", "r">>)
                      = Num(stated_colour(inv[i].req.args.style, inv[i].req.args.embed_color))
        /\ (inv[i].req.tool = "discord_send_announcement" /\ inv[i].pc = "done")
               => /\ inv[i].ret.how = "returned"
                  /\ posted_embed(inv[i]) => succeeded(inv[i])

\* A hotfix with the colour "not-hex" has been posted in the red of its
\* style, and a release with the colour "#5865F2" in that colour
BadColourFallsBack ==
    /\ \E i \in Invocations :
           /\ posted_embed(inv[i])
           /\ inv[i].req.args.style = "hotfix"
           /\ inv[i].req.args.embed_color = Str(<<"n", "o", "t", "-", "h", "e", "x">>)
           /\ item_of(embed_of(inv[i]), <<"c", "o", "l", "o", "r">>) = Num(15548997)
    /\ \E i \in Invocations :
           /\ posted_embed(inv[i])
           /\ inv[i].pc = "done"
           /\ inv[i].req.args.style = "release"
           /\ inv[i].req.args.embed_color = Str(<<"#", "5", "8", "6", "5", "F", "2">>)
           /\ item_of(embed_of(inv[i]), <<"c", "o", "l", "o", "r">>) = Num(5793266)

\* after is before without the entry of key, every other entry as it was
\* and where it was
without_entry(before, after, key) ==
    after.items = SelectSeq(before.items, LAMBDA it : it.k # key)

\* text is the not-found error of remove-webhook, with every name in names
lists_names(text, names) ==
    /\ startswith(text, <<"E", "r", "r", "o", "r", ":", " ", "W", "e", "b", "h", "o", "o", "k", " ", "'">>)
    /\ contains(text, <<"n", "o", "t", " ", "f", "o", "u", "n", "d">>)
    /\ \A n \in names : contains(text, n)

has_text(payload, key) ==
    /\ has_key(payload, key)
    /\ item_of(payload, key).t = "str"
    /\ item_of(payload, key).s # <<>>

\* The payload holds a list under key that is not empty
has_list(payload, key) ==
    /\ has_key(payload, key)
    /\ item_of(payload, key).t = "arr"
    /\ item_of(payload, key).xs # <<>>

\* C16: every payload that send-message or send-announcement has posted
\* holds a content that is not empty or a list of embeds that is not empty,
\* and a content it holds is at most 2000 characters long.
EveryPostHasABody ==
    \A i \in Invocations :
        inv[i].post.payload.t = "obj"
            => /\ inv[i].req.tool \in SendTools
               /\ \/ has_text(inv[i].post.payload, <<"c", "o", "n", "t", "e", "n", "t">>)
                  \/ has_list(inv[i].post.payload, <<"e", "m", "b", "e", "d", "s">>)
               /\ has_key(inv[i].post.payload, <<"c", "o", "n", "t", "e", "n", "t">>)
                      => /\ has_text(inv[i].post.payload, <<"c", "o", "n", "t", "e", "n", "t">>)
                         /\ Len(item_of(inv[i].post.payload, <<"c", "o", "n", "t", "e", "n", "t">>).s) <= 2000

\* A send-message is waiting for the POST of a content of 2000 characters
PostedAtTheLimit ==
    \E i \in Invocations :
        /\ inv[i].pc = "posting"
        /\ inv[i].req.tool = "discord_send_message"
        /\ has_text(inv[i].post.payload, <<"c", "o", "n", "t", "e", "n", "t">>)
        /\ Len(item_of(inv[i].post.payload, <<"c", "o", "n", "t", "e", "n", "t">>).s) = 2000

\* C17: send-message, send-announcement and list-webhooks never write the
\* registry, whatever they are given and whatever comes of the POST: the
\* file is as it was after each of their steps.  It changes only in a step
\* of add-webhook or remove-webhook.
OnlyAddAndRemoveWrite ==
    [][/\ \A i \in Invocations :
              (starts(i) /\ inv'[i].req.tool \in SendTools \cup {"discord_list_webhooks"})
                  => file' = file
       /\ \A i \in Invocations :
              (inv[i].pc = "posting" /\ inv'[i].pc = "done") => file' = file
       /\ file' # file
              => \E i \in Invocations :
                     /\ starts(i)
                     /\ inv'[i].req.tool \in {"discord_add_webhook", "discord_remove_webhook"}]_vars

\* A send-message whose POST timed out has returned its error, and the
\* registry holds the entry it sent to
SentAndRegistryKept ==
    /\ \E i \in Invocations :
           /\ inv[i].pc = "done"
           /\ inv[i].req.tool = "discord_send_message"
           /\ inv[i].posts = 1
           /\ inv[i].resp.exc = "ReadTimeout"
    /\ names_of(registry(file)) = {<<"r", "e", "l">>}
    /\ item_of(item_of(registry(file), <<"r", "e", "l">>), <<"u", "r", "l">>) = Str(URL_A)

====
